---------------------------- MODULE Spec2Model ----------------------------
(***************************************************************************)
(* Model of the review-generation workflow of src/src/llm/__init__.py:     *)
(* the LangGraph state machine validate -> generate -> check -> end built  *)
(* by ReviewGenerator._create_workflow, and the result policy of           *)
(* ReviewGenerator.generate_review around it.                              *)
(*                                                                         *)
(* A model completion is an input of the model: it either raises, returns  *)
(* text that parse_json_response cannot decode, or returns text that       *)
(* decodes to a JSON object.                                               *)
(*                                                                         *)
(* The collaborators of the workflow have their own specifications over    *)
(* their own variables: RateLimiter of src/app.py (RLSpec, sequential      *)
(* calls; RLConcSpec, calls from several threads).                         *)
(***************************************************************************)
EXTENDS Integers, Sequences, FiniteSets, TLC

\* ------------------------------------------------------------------ bounds

\* Number of distinct review texts the model may reply with in Generate.
NumTexts == 2

\* RateLimiter.max_requests of the modelled instance.
MaxRequests == 2

\* RateLimiter.window_seconds of the modelled instance.
WindowSeconds == 2

\* The last reading of the clock.
MaxTime == 4

\* The most rows the reviews database holds.
MaxRows == 3

\* The largest limit get_relevant_reviews is called with.
MaxLimit == 2

\* The default of get_relevant_reviews' limit parameter.
DefaultLimit == 10

\* The most members an object of a model reply has.
MaxMembers == 2

\* The longest reply enumerated character by character.
MaxChars == 4

\* The log entries emitted in one session.
MaxEmits == 104

\* The largest max_attempts wait_for_db is called with, its default apart.
MaxWaitAttempts == 4

\* The largest delay wait_for_db is called with.
MaxDelay == 2

\* token_limit of the modelled call of check_and_truncate_tokens.
TokenLimit == 2

\* The most reviews the DataFrame holds.
MaxReviews == 2

\* ------------------------------------------------------- values and config

\* Python's None (also a JSON null after decoding).
None == "None"

\* A key that a decoded JSON object does not have.
Absent == "<absent>"

TextName == <<"review text 1", "review text 2", "review text 3", "review text 4">>

\* The free texts a Generate completion may return.
Texts == {TextName[i] : i \in 1..NumTexts}

\* The cap on generate+check cycles (the literal in should_regenerate and
\* in generate_review).
AttemptCap == 3

\* config.QUALITY_THRESHOLD
QUALITY_THRESHOLD ==
    [k \in {"theme_relevance", "rating_match", "language_quality",
            "consistency", "category_specificity"} |-> 7]

Dims == DOMAIN QUALITY_THRESHOLD

\* config.ERROR_MESSAGES (the texts are the Russian messages, transliterated
\* to their meaning)
ERROR_MESSAGES ==
    [k \in {"non_russian", "nsfw", "irrelevant", "gibberish", "api_error",
            "validation_failed"} |->
        CASE k = "non_russian" -> "Please use Russian for the review theme."
          [] k = "nsfw" -> "Please avoid inappropriate content."
          [] k = "irrelevant" -> "The theme must relate to a review of a place or service."
          [] k = "gibberish" -> "Please enter meaningful text for the review theme."
          [] k = "api_error" -> "An error occurred while generating the review. Please try again later."
          [] k = "validation_failed" -> "Check not passed. Please change the review parameters."]

\* The warning literal of generate_review returned at the attempt cap.
DEGRADED_MSG == "The quality of the review may be suboptimal."

\* The placeholder generate_review substitutes for missing examples.
NO_EXAMPLES == "No example reviews available."

\* The error types the validation prompt enumerates.
KnownErrorTypes == {"non_russian", "nsfw", "irrelevant", "gibberish"}

\* ------------------------------------------------------------- exceptions

NoExc == [type |-> "None", str |-> ""]

\* Failures of client.chat.completions.create.
ApiErrors ==
    { [type |-> "APITimeoutError", str |-> "Request timed out."],
      [type |-> "APIConnectionError", str |-> "Connection error."] }

\* The ValueError parse_json_response raises when json.loads fails.
ParseError(step) ==
    [type |-> "ValueError",
     str |-> "Invalid JSON response from " \o step \o ". Raw content: <raw>"]

\* KeyError(k) of a dict lookup; str() of it is repr(k).
KeyError(k) ==
    [type |-> "KeyError",
     str |-> IF k = None THEN "None" ELSE "'" \o k \o "'"]

\* ---------------------------------------------------------- model replies

\* A decoded reply: kind "None" is Python None (no reply yet), kind "empty"
\* is the JSON object {} (falsy, no keys), kind "obj" an object with keys.
NoValidation == [kind |-> "None", is_valid |-> FALSE, error_type |-> Absent]

EmptyValidation == [kind |-> "empty", is_valid |-> FALSE, error_type |-> Absent]

\* The error_type values of a rejecting validation reply: the four known
\* ones, JSON null, a missing key, and an unrecognized type.
RejectErrorTypes ==
    KnownErrorTypes \cup {None, Absent, "spam"}

ValidationObjects ==
    { [kind |-> "obj", is_valid |-> TRUE, error_type |-> e] : e \in {None, Absent} }
    \cup
    { [kind |-> "obj", is_valid |-> FALSE, error_type |-> e] : e \in RejectErrorTypes }
    \cup
    { EmptyValidation }

\* The score maps a CheckResult may carry: all dimensions just below (6), at
\* (7) or above (10) the threshold, and every map with exactly one dimension
\* just below the threshold while the others are at or above it.
ScoreMaps ==
    { [k \in Dims |-> v] : v \in {6, 7, 10} }
    \cup { [k \in Dims |-> IF k = low THEN 6 ELSE v] : low \in Dims, v \in {7, 10} }

Verdicts == {"accept", "reject"}

NoScores == [k \in Dims |-> 0]

NoCheck == [kind |-> "None", verdict |-> Absent, scores |-> NoScores]

EmptyCheck == [kind |-> "empty", verdict |-> Absent, scores |-> NoScores]

CheckObjects ==
    { [kind |-> "obj", verdict |-> v, scores |-> sc] :
        v \in Verdicts, sc \in ScoreMaps }
    \cup
    { EmptyCheck }

\* ----------------------------------------------------------------- request

Requests ==
    [theme : {"coffee"}, rating : {1, 5}, category : {"cafe"},
     real_reviews : {None, "", "Example 1: ..."}]

NoRequest == [theme |-> None, rating |-> 0, category |-> None, real_reviews |-> None]

\* ------------------------------------------- JsonHelper, text as characters

\* A text is a sequence of characters, each character a string.
Q == "\""

NL == "\n"

BS == "\\"

\* The slice text[i..j].
Slice(text, i, j) == SubSeq(text, i, j)

\* text has word at position i.
HasAt(text, i, word) ==
    /\ i + Len(word) - 1 <= Len(text)
    /\ Slice(text, i, i + Len(word) - 1) = word

\* The backtick character, which a string of this notation cannot hold.
BT == "<backtick>"

FENCE == <<BT, BT, BT>>

FENCE_JSON_NL == FENCE \o <<"j", "s", "o", "n">> \o <<NL>>

FENCE_NL == FENCE \o <<NL>>

RECURSIVE StripFenceLines(_, _)
\* re.sub(<fence>(?:json)?\n, '', content), a fence being three backticks,
\* from position i on.
StripFenceLines(text, i) ==
    IF i > Len(text) THEN <<>>
    ELSE IF HasAt(text, i, FENCE_JSON_NL)
         THEN StripFenceLines(text, i + Len(FENCE_JSON_NL))
    ELSE IF HasAt(text, i, FENCE_NL)
         THEN StripFenceLines(text, i + Len(FENCE_NL))
    ELSE <<text[i]>> \o StripFenceLines(text, i + 1)

RECURSIVE RemoveFences(_, _)
\* content.replace(<fence>, ''), from position i on.
RemoveFences(text, i) ==
    IF i > Len(text) THEN <<>>
    ELSE IF HasAt(text, i, FENCE) THEN RemoveFences(text, i + Len(FENCE))
    ELSE <<text[i]>> \o RemoveFences(text, i + 1)

\* The characters str.strip() removes and the regex class \s matches.
Whitespace == {" ", NL, "\t", "\r"}

RECURSIVE Strip(_)
\* content.strip()
Strip(text) ==
    IF text = <<>> THEN text
    ELSE IF Head(text) \in Whitespace THEN Strip(Tail(text))
    ELSE IF text[Len(text)] \in Whitespace
         THEN Strip(Slice(text, 1, Len(text) - 1))
    ELSE text

DigitChars == {"0", "1", "2", "3", "4", "5", "6", "7", "8", "9"}

RECURSIVE RunEnd(_, _, _)
\* The last position of the longest run of characters of class from i on;
\* i - 1 when text[i] is not of the class.
RunEnd(text, i, class) ==
    IF i <= Len(text) /\ text[i] \in class THEN RunEnd(text, i + 1, class)
    ELSE i - 1

RECURSIVE NextQuote(_, _)
\* The position of the first quote at or after i; 0 when there is none.
NextQuote(text, i) ==
    IF i > Len(text) THEN 0
    ELSE IF text[i] = Q THEN i ELSE NextQuote(text, i + 1)

\* The alternatives of group 1, in the order the pattern lists them.
ScalarWords == << <<"t", "r", "u", "e">>, <<"f", "a", "l", "s", "e">>, <<"n", "u", "l", "l">> >>

\* (true|false|null|\d+|"[^"]*") tried at position i: the last position of
\* group 1, or 0 when no alternative matches there.
Group1End(text, i) ==
    IF \E w \in 1..Len(ScalarWords) : HasAt(text, i, ScalarWords[w])
    THEN i - 1 + Len(ScalarWords[CHOOSE w \in 1..Len(ScalarWords) :
                                   HasAt(text, i, ScalarWords[w])])
    ELSE IF text[i] \in DigitChars THEN RunEnd(text, i, DigitChars)
    ELSE IF text[i] = Q THEN NextQuote(text, i + 1)
    ELSE 0

\* Mutant of MatchAt: group 2 is any character.
MatchAt_before_any(text, i) ==
    LET g == Group1End(text, i)
        k == RunEnd(text, g + 1, Whitespace) + 1
    IN  IF g # 0 /\ k <= Len(text)
           /\ \E x \in (g + 1)..(k - 1) : text[x] = NL
        THEN [ok |-> TRUE, g |-> g, k |-> k]
        ELSE [ok |-> FALSE, g |-> 0, k |-> 0]

\* The pattern (true|false|null|\d+|"[^"]*")\s*\n\s*(["{]) tried at position
\* i: g is where group 1 ends and k where group 2 is.
MatchAt(text, i) ==
    LET g == Group1End(text, i)
        k == RunEnd(text, g + 1, Whitespace) + 1
    IN  IF g # 0 /\ k <= Len(text) /\ text[k] \in {Q, "{"}
           /\ \E x \in (g + 1)..(k - 1) : text[x] = NL
        THEN [ok |-> TRUE, g |-> g, k |-> k]
        ELSE [ok |-> FALSE, g |-> 0, k |-> 0]

\* Mutant of add_commas: the branch that inserts nothing is taken.
add_commas_nothing(value, next_char) == value \o <<next_char>>

\* add_commas(match): every value group 1 can hold is true, false, null,
\* all digits, or ends with a quote, so the result is value, comma, next_char.
add_commas(value, next_char) == value \o <<",">> \o <<next_char>>

RECURSIVE RepairCommas(_, _)
\* re.sub(pattern, add_commas, content), from position i on: matches are
\* taken left to right and do not overlap.
RepairCommas(text, i) ==
    IF i > Len(text) THEN <<>>
    ELSE IF MatchAt(text, i).ok
         THEN add_commas(Slice(text, i, MatchAt(text, i).g),
                         text[MatchAt(text, i).k])
              \o RepairCommas(text, MatchAt(text, i).k + 1)
    ELSE <<text[i]>> \o RepairCommas(text, i + 1)

\* clean_json_response up to the comma repair: fences removed, then strip().
StripFences(content) == Strip(RemoveFences(StripFenceLines(content, 1), 1))

\* JsonHelper.clean_json_response
clean_json_response(content) == RepairCommas(StripFences(content), 1)

\* ------------------------------------------------------------- json.loads

\* A decoded value: t is its type, s the characters of a string or number,
\* items the members of an object (each a "member" holding its key in s and
\* its value as its one item) or the elements of an array.
JValue(t, chars, items) == [t |-> t, s |-> chars, items |-> items]

JNull == JValue("null", <<>>, <<>>)

JTrue == JValue("true", <<>>, <<>>)

JFalse == JValue("false", <<>>, <<>>)

Parsed(v, next) == [ok |-> TRUE, val |-> v, next |-> next]

Failure == [ok |-> FALSE, val |-> JNull, next |-> 0]

\* The white space json.loads skips between tokens.
JsonWhitespace == {" ", NL, "\t", "\r"}

SkipWs(text, i) == RunEnd(text, i, JsonWhitespace) + 1

\* The character an escape stands for; "" when the escape is not one of
\* the two-character escapes.
Unescaped(c) ==
    CASE c = Q -> Q
      [] c = BS -> BS
      [] c = "/" -> "/"
      [] c = "n" -> NL
      [] c = "t" -> "\t"
      [] c = "r" -> "\r"
      [] OTHER -> ""

RECURSIVE ParseString(_, _, _)
\* The string whose opening quote is at i - 1: an unescaped quote ends it, a
\* raw control character is refused.
ParseString(text, i, acc) ==
    IF i > Len(text) THEN Failure
    ELSE IF text[i] = Q THEN Parsed(JValue("str", acc, <<>>), i + 1)
    ELSE IF text[i] = BS
         THEN IF i + 1 <= Len(text) /\ Unescaped(text[i + 1]) # ""
              THEN ParseString(text, i + 2, Append(acc, Unescaped(text[i + 1])))
              ELSE Failure
    ELSE IF text[i] \in {NL, "\t", "\r"} THEN Failure
    ELSE ParseString(text, i + 1, Append(acc, text[i]))

\* An integer at i: an optional minus sign, then 0 or a run of digits that
\* does not start with 0; its value is held as its digits, -0 being 0.
ParseNumber(text, i) ==
    LET d == IF text[i] = "-" THEN i + 1 ELSE i
        e == IF d <= Len(text) /\ text[d] = "0" THEN d
             ELSE RunEnd(text, d, DigitChars)
    IN  IF e < d THEN Failure
        ELSE Parsed(JValue("num", IF Slice(text, i, e) = <<"-", "0">> THEN <<"0">>
                                  ELSE Slice(text, i, e), <<>>), e + 1)

RECURSIVE Position(_, _, _)
\* The position of the member with key k in items from i on; 0 when absent.
Position(items, k, i) ==
    IF i > Len(items) THEN 0
    ELSE IF items[i].s = k THEN i ELSE Position(items, k, i + 1)

\* dict[key] = value: a repeated key keeps its place and takes the new value.
Put(items, k, v) ==
    IF Position(items, k, 1) = 0
    THEN Append(items, JValue("member", k, <<v>>))
    ELSE [items EXCEPT ![Position(items, k, 1)] = JValue("member", k, <<v>>)]

RECURSIVE ParseValue(_, _)
RECURSIVE ParseMembers(_, _, _)
RECURSIVE ParseElements(_, _, _)

\* The members of an object from i on, where a key must start.
ParseMembers(text, i, acc) ==
    IF i > Len(text) \/ text[i] # Q THEN Failure
    ELSE LET key   == ParseString(text, i + 1, <<>>)
             colon == SkipWs(text, key.next)
             v     == ParseValue(text, SkipWs(text, colon + 1))
             e     == SkipWs(text, v.next)
         IN  IF ~key.ok \/ colon > Len(text) \/ text[colon] # ":" THEN Failure
             ELSE IF ~v.ok \/ e > Len(text) THEN Failure
             ELSE IF text[e] = ","
                  THEN ParseMembers(text, SkipWs(text, e + 1),
                                    Put(acc, key.val.s, v.val))
             ELSE IF text[e] = "}"
                  THEN Parsed(JValue("obj", <<>>, Put(acc, key.val.s, v.val)), e + 1)
             ELSE Failure

\* The elements of an array from i on, where a value must start.
ParseElements(text, i, acc) ==
    LET v == ParseValue(text, i)
        e == SkipWs(text, v.next)
    IN  IF ~v.ok \/ e > Len(text) THEN Failure
        ELSE IF text[e] = ","
             THEN ParseElements(text, SkipWs(text, e + 1), Append(acc, v.val))
        ELSE IF text[e] = "]"
             THEN Parsed(JValue("arr", <<>>, Append(acc, v.val)), e + 1)
        ELSE Failure

\* The value that starts at i.
ParseValue(text, i) ==
    IF i > Len(text) THEN Failure
    ELSE IF text[i] = "{"
         THEN IF SkipWs(text, i + 1) <= Len(text) /\ text[SkipWs(text, i + 1)] = "}"
              THEN Parsed(JValue("obj", <<>>, <<>>), SkipWs(text, i + 1) + 1)
              ELSE ParseMembers(text, SkipWs(text, i + 1), <<>>)
    ELSE IF text[i] = "["
         THEN IF SkipWs(text, i + 1) <= Len(text) /\ text[SkipWs(text, i + 1)] = "]"
              THEN Parsed(JValue("arr", <<>>, <<>>), SkipWs(text, i + 1) + 1)
              ELSE ParseElements(text, SkipWs(text, i + 1), <<>>)
    ELSE IF text[i] = Q THEN ParseString(text, i + 1, <<>>)
    ELSE IF HasAt(text, i, ScalarWords[1]) THEN Parsed(JTrue, i + Len(ScalarWords[1]))
    ELSE IF HasAt(text, i, ScalarWords[2]) THEN Parsed(JFalse, i + Len(ScalarWords[2]))
    ELSE IF HasAt(text, i, ScalarWords[3]) THEN Parsed(JNull, i + Len(ScalarWords[3]))
    ELSE IF text[i] \in DigitChars \cup {"-"} THEN ParseNumber(text, i)
    ELSE Failure

\* json.loads(text): one value, white space around it and nothing else;
\* ok is FALSE where json.loads raises JSONDecodeError.
json_loads(text) ==
    LET v == ParseValue(text, SkipWs(text, 1))
    IN  IF v.ok /\ SkipWs(text, v.next) = Len(text) + 1
        THEN [ok |-> TRUE, val |-> v.val]
        ELSE [ok |-> FALSE, val |-> JNull]

\* Mutant of parse_json_response: the reply is decoded as it came.
parse_json_response_raw(content) == json_loads(content)

\* JsonHelper.parse_json_response: the decoded reply; ok is FALSE where it
\* raises ValueError.
parse_json_response(content) == json_loads(clean_json_response(content))

\* ---------------------------------------------------------- replies as text

\* A quoted string with the given content.
Str(content) == <<Q>> \o content \o <<Q>>

\* The scalar values a reply may hold, as written.
ScalarTexts ==
    { ScalarWords[1], ScalarWords[3], <<"4", "2">>, Str(<<>>),
      Str(<<"x", BS, Q, "y">>) }

\* The objects and arrays a reply may hold as a member's value, as written.
NestedTexts ==
    { <<"{", "}">>,
      <<"{", NL, Q, "k", Q, ":", " ">> \o ScalarWords[2] \o <<NL, "}">>,
      <<"[", "7", ",", " ">> \o Str(<<"a">>) \o <<"]">> }

\* The values of members: the text and whether it is a scalar.
MemberValues ==
    { [text |-> t, scalar |-> TRUE] : t \in ScalarTexts }
    \cup { [text |-> t, scalar |-> FALSE] : t \in NestedTexts }

\* The key of the i-th member.
KeyOf(i) == Str(<<"k", ToString(i)>>)

\* How a reply is laid out: the white space after the opening brace, after a
\* comma, before and after a colon, after a value, before the closing brace
\* and at the start of a line that follows a value with no comma.
Layouts ==
    { [brace |-> <<>>, comma |-> <<>>, key |-> <<>>, colon |-> <<>>,
       value |-> <<>>, close |-> <<>>, indent |-> <<>>],
      [brace |-> <<>>, comma |-> <<" ">>, key |-> <<>>, colon |-> <<" ">>,
       value |-> <<>>, close |-> <<>>, indent |-> <<>>],
      [brace |-> <<NL, " ", " ">>, comma |-> <<NL, " ", " ">>, key |-> <<>>,
       colon |-> <<" ">>, value |-> <<>>, close |-> <<NL>>, indent |-> <<" ", " ">>],
      [brace |-> <<NL>>, comma |-> <<NL>>, key |-> <<" ">>, colon |-> <<NL>>,
       value |-> <<" ">>, close |-> <<" ", NL>>, indent |-> <<" ">>],
      [brace |-> <<"\r", NL, "\t">>, comma |-> <<"\r", NL, "\t">>, key |-> <<>>,
       colon |-> <<"\t">>, value |-> <<"\r">>, close |-> <<"\r", NL>>,
       indent |-> <<"\t">>] }

RECURSIVE MembersText(_, _, _, _)
\* The members from the i-th on as written in layout lay: commas[j] tells
\* whether the comma after the j-th member is written; where it is not, the
\* next key starts on a new line.
MembersText(values, commas, lay, i) ==
    IF i > Len(values) THEN <<>>
    ELSE KeyOf(i) \o lay.key \o <<":">> \o lay.colon \o values[i].text \o lay.value
         \o (IF i = Len(values) THEN lay.close
             ELSE IF commas[i] THEN <<",">> \o lay.comma
             ELSE <<NL>> \o lay.indent)
         \o MembersText(values, commas, lay, i + 1)

\* An object reply as written.
ObjectText(values, commas, lay) ==
    <<"{">> \o (IF values = <<>> THEN lay.close ELSE lay.brace)
    \o MembersText(values, commas, lay, 1) \o <<"}">>

\* The replies built as objects: the text received, the text with every
\* comma written, how many commas are missing and whether each missing comma
\* follows a scalar.
ObjectReplies ==
    UNION {
      { [content |-> ObjectText(values, commas, lay),
         intended |-> ObjectText(values, [j \in DOMAIN commas |-> TRUE], lay),
         missing |-> Cardinality({ j \in DOMAIN commas : ~commas[j] }),
         afterScalar |-> \A j \in DOMAIN commas : ~commas[j] => values[j].scalar,
         fenced |-> FALSE] :
          values \in [1..n -> MemberValues],
          commas \in [1..(n - 1) -> BOOLEAN],
          lay \in Layouts } :
      n \in 0..MaxMembers }

\* The characters of the replies enumerated one by one.
ShortAlphabet == {Q, NL, "{", "}", ":", "1"}

\* Every text of at most MaxChars characters of ShortAlphabet.
ShortReplies ==
    { [content |-> t, intended |-> t, missing |-> 0, afterScalar |-> TRUE,
       fenced |-> FALSE] :
        t \in UNION { [1..n -> ShortAlphabet] : n \in 0..MaxChars } }

\* The example reply of the validation step with its comma missing.
VALIDATION_EXAMPLE_TEXT ==
    <<"{">> \o Str(<<"i", "s", "_", "v", "a", "l", "i", "d">>) \o <<":", " ">> \o ScalarWords[1] \o <<NL>>
    \o Str(<<"e", "r", "r", "o", "r", "_", "t", "y", "p", "e">>) \o <<":", " ">> \o ScalarWords[3] \o <<"}">>

\* The example with its comma in place.
VALIDATION_EXAMPLE_WITH_COMMA ==
    <<"{">> \o Str(<<"i", "s", "_", "v", "a", "l", "i", "d">>) \o <<":", " ">> \o ScalarWords[1] \o <<",", NL>>
    \o Str(<<"e", "r", "r", "o", "r", "_", "t", "y", "p", "e">>) \o <<":", " ">> \o ScalarWords[3] \o <<"}">>

\* What the example is meant to decode to.
VALIDATION_EXAMPLE_VALUE ==
    JValue("obj", <<>>,
           << JValue("member", <<"i", "s", "_", "v", "a", "l", "i", "d">>, <<JTrue>>),
              JValue("member", <<"e", "r", "r", "o", "r", "_", "t", "y", "p", "e">>,
                     <<JNull>>) >>)

\* A valid reply one of whose string values holds a run of three backticks.
BACKTICKS_IN_STRING ==
    <<"{">> \o KeyOf(1) \o <<":", " ">> \o Str(<<"a">> \o FENCE \o <<"b">>) \o <<"}">>

\* The valid JSON texts a model wraps in a markdown code block.
FenceBodies ==
    { VALIDATION_EXAMPLE_WITH_COMMA, BACKTICKS_IN_STRING,
      <<"{">> \o KeyOf(1) \o <<":", " ">> \o Str(<<"x", BS, Q, "y">>) \o <<"}">> }

\* What a model writes around the JSON text of a code block: the opening
\* fence with or without the json tag, the closing fence, and white space
\* around the block.
FenceWrappers ==
    { [before |-> lead \o open, after |-> <<NL>> \o FENCE \o trail] :
        lead \in {<<>>, <<" ", NL>>}, open \in {FENCE_JSON_NL, FENCE_NL},
        trail \in {<<>>, <<NL>>} }

\* The replies written as a code block; intended is the JSON text inside.
FencedReplies ==
    { [content |-> w.before \o body \o w.after, intended |-> body,
       missing |-> 0, afterScalar |-> TRUE, fenced |-> TRUE] :
        body \in FenceBodies, w \in FenceWrappers }

\* The replies the parser is given.
ReplyTexts ==
    ObjectReplies \cup ShortReplies \cup FencedReplies
    \cup { [content |-> VALIDATION_EXAMPLE_TEXT,
            intended |-> VALIDATION_EXAMPLE_WITH_COMMA,
            missing |-> 1, afterScalar |-> TRUE, fenced |-> FALSE] }

NoReply ==
    [content |-> <<>>, intended |-> <<>>, missing |-> 0, afterScalar |-> TRUE,
     fenced |-> FALSE]

\* The steps that have their reply parsed, as they name themselves.
ParsedSteps == {"validation", "quality check"}

\* text holds word as a run of consecutive characters.
Contains(text, word) == \E i \in 1..(Len(text) + 1) : HasAt(text, i, word)

\* The message of the ValueError parse_json_response raises: two fixed
\* pieces of text, the step between them and the raw content after them.
ValueErrorMessage(step, content) ==
    <<"Invalid JSON response from ", step, ". Raw content: ">> \o content

\* No exception was raised by the parser.
NoValueError == [type |-> "None", message |-> <<>>]

NoDecoding == [ok |-> FALSE, val |-> JNull]


\* ---------------------------------------------------------------- examples

\* Texts of real reviews the database may hold.
ExampleTexts == {"Great coffee.", "Slow service."}

\* The lists of examples the front-end may pass on: get_relevant_reviews
\* returned them, so they are not empty.
ExampleLists ==
    { <<"Great coffee.">>, <<"Slow service.">>, <<"Great coffee.", "Slow service.">> }

RECURSIVE JoinExamples(_, _)
\* "\n\n".join(f"Example {i+1}:\n{review}" for i, review in enumerate(reviews)),
\* from the i-th item on.
JoinExamples(reviews, i) ==
    IF i > Len(reviews) THEN ""
    ELSE "Example " \o ToString(i) \o ":\n" \o reviews[i]
         \o (IF i < Len(reviews) THEN "\n\n" ELSE "")
         \o JoinExamples(reviews, i + 1)

\* reviews_text of the front-end's generate_review.
ReviewsText(reviews) == JoinExamples(reviews, 1)

\* The values the similarity hook may compute for one example.
MetricValues == {"low", "high"}

\* ------------------------------------------------------------------- state

VARIABLES
    pc,           \* position of the execution of generate_review
    request,      \* the arguments generate_review was called with
    state,        \* the ReviewState threaded through the graph
    exc,          \* the exception being raised, NoExc when none
    failedStep,   \* where exc was raised
    result,       \* the pair generate_review returned
    escaped,      \* TRUE when an exception left generate_review
    calls,        \* model-completion requests issued
    nValidate,    \* Validate steps started
    nGenerate,    \* Generate steps started
    nCheck,       \* Check steps started
    genLog,       \* the texts the Generate steps stored, in order
    firstVerdict, \* verdict of the first completed Check
    allReject,    \* every completed Check had verdict "reject"
    endReached,   \* the end node ran
    rl,           \* the RateLimiter, the clock and what its calls returned
    thr,          \* the threads inside RateLimiter.is_allowed
    execs,        \* two executions of generate_review: control and outcome
    frames,       \* the ReviewState each of the two executions works on
    alone,        \* each of the two executions replayed on its own
    db,           \* the reviews database and the latest retrieval from it
    fe,           \* the front-end script: its inputs, position and display
    pj,           \* JsonHelper: the reply being parsed and what became of it
    sent,         \* the prompts the steps rendered and sent, in order
    ss,           \* the front-end sessions, each with its rate_limiter
    lg,           \* st.session_state.app_logs and the entries emitted
    wd,           \* wait_for_db: its arguments, its loop and its outcome
    tk            \* check_and_truncate_tokens: the DataFrame and the checks

\* The variables of the workflow execution.
wfVars == <<pc, request, state, exc, failedStep, result, escaped, calls,
            nValidate, nGenerate, nCheck, genLog, firstVerdict, allReject,
            endReached, sent>>

\* The variables of the rate limiter.
rlVars == <<rl, thr>>

\* The variables of the two side-by-side executions.
ccVars == <<execs, frames, alone>>

\* The variables of the retrieval store.
dbVars == <<db>>

\* The variables of the front-end script.
feVars == <<fe>>

\* The variables of the reply parser.
pjVars == <<pj>>

\* The variables of the sessions and of the log buffer.
ssVars == <<ss>>

lgVars == <<lg>>

\* The variables of the offline data preparation.
wdVars == <<wd>>

tkVars == <<tk>>

opVars == <<wdVars, tkVars>>

\* The variables the workflow steps leave alone.
envVars ==
    <<rlVars, ccVars, dbVars, feVars, pjVars, ssVars, lgVars, opVars>>

\* The variables the rate limiter leaves alone.
notRL ==
    <<wfVars, ccVars, dbVars, feVars, pjVars, ssVars, lgVars, opVars>>

\* The variables the side-by-side executions leave alone.
notCC ==
    <<wfVars, rlVars, dbVars, feVars, pjVars, ssVars, lgVars, opVars>>

\* The variables the retrieval store leaves alone.
notDB ==
    <<wfVars, rlVars, ccVars, feVars, pjVars, ssVars, lgVars, opVars>>

\* The variables the reply parser leaves alone.
notPJ ==
    <<wfVars, rlVars, ccVars, dbVars, feVars, ssVars, lgVars, opVars>>

\* The variables the sessions leave alone.
notSS ==
    <<wfVars, rlVars, ccVars, dbVars, feVars, pjVars, lgVars, opVars>>

\* The variables the log buffer leaves alone.
notLG ==
    <<wfVars, rlVars, ccVars, dbVars, feVars, pjVars, ssVars, opVars>>

\* The variables wait_for_db leaves alone.
notWD ==
    <<wfVars, rlVars, ccVars, dbVars, feVars, pjVars, ssVars, lgVars, tkVars>>

\* The variables check_and_truncate_tokens leaves alone.
notTK ==
    <<wfVars, rlVars, ccVars, dbVars, feVars, pjVars, ssVars, lgVars, wdVars>>

vars == <<wfVars, envVars>>

hist == <<genLog, firstVerdict, allReject>>

NoResult == [review |-> "<not returned>", message |-> "<not returned>"]

NoState ==
    [theme |-> None, rating |-> 0, category |-> None, attempts |-> 0,
     real_reviews |-> None, validation_result |-> NoValidation,
     generated_review |-> None, check_result |-> NoCheck]


\* ------------------------------------------------ JsonHelper, the parser

\* No reply has been given to the parser.
PJIdle ==
    [pc |-> "idle", step |-> None, reply |-> NoReply, stripped |-> <<>>,
     cleaned |-> <<>>, result |-> NoDecoding, error |-> NoValueError]

PJInit == pj = PJIdle

\* A completion returns: its content is what the parser is called with.
PJReceive ==
    /\ pj.pc = "idle"
    /\ \E r \in ReplyTexts, step \in ParsedSteps :
        pj' = [PJIdle EXCEPT !.pc = "received", !.reply = r, !.step = step]
    /\ UNCHANGED notPJ

\* parse_json_response(content, step): the content is cleaned and decoded;
\* where json.loads fails, result.ok is FALSE and error is the ValueError
\* raised in its place.
PJParse ==
    /\ pj.pc = "received"
    /\ LET decoded == parse_json_response(pj.reply.content)
       IN  pj' = [pj EXCEPT
                    !.pc = "parsed",
                    !.stripped = StripFences(pj.reply.content),
                    !.cleaned = clean_json_response(pj.reply.content),
                    !.result = decoded,
                    !.error = IF decoded.ok THEN NoValueError
                              ELSE [type |-> "ValueError",
                                    message |-> ValueErrorMessage(pj.step,
                                                    pj.reply.content)]]
    /\ UNCHANGED notPJ

\* The step that called the parser goes on, or fails; the parser keeps
\* nothing of the reply.
PJReturn ==
    /\ pj.pc = "parsed"
    /\ pj' = PJIdle
    /\ UNCHANGED notPJ

PJNext == PJReceive \/ PJParse \/ PJReturn

\* ------------------------------------------------------ get_relevant_reviews

Categories == {"cafe", "bar"}

Ratings == {1, 5}

\* The rows of yareviews joined with their rubric: text, rubric name, rating.
Rows == [text : ExampleTexts, rubric : Categories, rating : Ratings]

\* SELECT DISTINCT ON (r.text) ... WHERE rb.rubric_name = :rubric
\* AND r.rating = :rating: the distinct texts selected.
ExactTexts(rows, rubric, rating) ==
    { row.text : row \in { x \in rows : x.rubric = rubric /\ x.rating = rating } }

\* SELECT DISTINCT ON (r.text) ... WHERE rb.rubric_name = :rubric
RubricTexts(rows, rubric) ==
    { row.text : row \in { x \in rows : x.rubric = rubric } }

\* Sequences over S of length n without repetition.
Arrangements(S, n) ==
    { q \in [1..n -> S] : \A i, j \in 1..n : q[i] = q[j] => i = j }

\* Mutant of RandomLimit: LIMIT is not applied.
RandomLimit_unlimited(S, limit) ==
    Arrangements(S, Cardinality(S))

\* ORDER BY rand LIMIT :limit: the row sequences the query may fetch.
RandomLimit(S, limit) ==
    Arrangements(S, IF Cardinality(S) < limit THEN Cardinality(S) ELSE limit)

\* get_relevant_reviews(rubric, rating, limit): the pairs it may return.
get_relevant_reviews(rows, rubric, rating, limit) ==
    UNION { IF exact_matches # <<>>
            THEN { [reviews |-> exact_matches, exact_match |-> TRUE] }
            ELSE { [reviews |-> q, exact_match |-> FALSE] :
                     q \in RandomLimit(RubricTexts(rows, rubric), limit) } :
            exact_matches \in RandomLimit(ExactTexts(rows, rubric, rating), limit) }

\* The limits the retrieval is called with; the front-end uses the default.
Limits == 1..MaxLimit

NoRetrieval ==
    [rubric |-> None, rating |-> 0, limit |-> 0, reviews |-> <<>>,
     exact_match |-> FALSE, parity |-> 0]

DBInit == db = [rows |-> {}, last |-> NoRetrieval]

\* A review is stored.
DBInsert ==
    /\ Cardinality(db.rows) < MaxRows
    /\ \E row \in Rows \ db.rows : db' = [db EXCEPT !.rows = @ \cup {row}]
    /\ UNCHANGED notDB

\* One call of get_relevant_reviews; parity tells a call from the one before.
DBQuery ==
    /\ \E rubric \in Categories, rating \in Ratings, limit \in Limits :
        \E r \in get_relevant_reviews(db.rows, rubric, rating, limit) :
            db' = [db EXCEPT !.last =
                     [rubric |-> rubric, rating |-> rating, limit |-> limit,
                      reviews |-> r.reviews, exact_match |-> r.exact_match,
                      parity |-> 1 - db.last.parity]]
    /\ UNCHANGED notDB

DBNext == DBInsert \/ DBQuery

\* ------------------------------------------------------------ RateLimiter

\* The caller identities: generate_review of app.py passes "unknown" when
\* streamlit has no get_client_ip.
Ips == {"unknown", "10.0.0.7"}

\* The threads that may be inside is_allowed at once.
Threads == 1..(MaxRequests + 1)

\* No call of is_allowed has returned yet.
NoCall == [ip |-> None, time |-> 0, allowed |-> FALSE, inWindowBefore |-> 0]

\* Mutant of Purge: a timestamp exactly window_seconds old is kept.
PurgeInclusive(list, now) ==
    SelectSeq(list, LAMBDA req : req >= now - WindowSeconds)

\* is_allowed: [req for req in self.requests[ip] if req > now - window]
Purge(list, now) ==
    SelectSeq(list, LAMBDA req : req > now - WindowSeconds)

\* Mutant of LimitReached: the limit is tested with > instead of >=.
LimitReached_off_by_one(list) == Len(list) > MaxRequests

\* is_allowed: len(self.requests[ip]) >= self.max_requests
LimitReached(list) == Len(list) >= MaxRequests

\* is_allowed: self.requests after "if ip not in self.requests".
EnsureKey(reqs, ip) ==
    IF ip \in DOMAIN reqs THEN reqs ELSE reqs @@ (ip :> <<>>)

\* Mutant of is_allowed: a denied call is recorded too.
is_allowed_recording_denied(reqs, ip, now) ==
    LET purged == [EnsureKey(reqs, ip) EXCEPT ![ip] = Purge(@, now)]
    IN  [requests |-> [purged EXCEPT ![ip] = Append(@, now)],
         allowed |-> ~LimitReached(purged[ip])]

\* RateLimiter.is_allowed run without interruption: the dict it leaves and
\* the value it returns.
is_allowed(reqs, ip, now) ==
    LET purged == [EnsureKey(reqs, ip) EXCEPT ![ip] = Purge(@, now)]
    IN  IF LimitReached(purged[ip])
        THEN [requests |-> purged, allowed |-> FALSE]
        ELSE [requests |-> [purged EXCEPT ![ip] = Append(@, now)],
              allowed |-> TRUE]

\* The number of timestamps of list inside the window that ends at now.
InWindow(list, now) ==
    Cardinality({i \in 1..Len(list) : list[i] > now - WindowSeconds /\ list[i] <= now})

\* RateLimiter.__init__, the clock at 0, no call made.
RLInit ==
    /\ rl = [requests |-> <<>>, now |-> 0,
             granted |-> [ip \in Ips |-> <<>>], last |-> NoCall]
    /\ thr = [t \in Threads |->
                [pc |-> "idle", ip |-> None, now |-> 0, local |-> <<>>,
                 allowed |-> FALSE]]

\* time.time() advances between calls.
RLTick ==
    /\ rl.now < MaxTime
    /\ rl' = [rl EXCEPT !.now = @ + 1]
    /\ UNCHANGED <<thr, notRL>>

\* One call of is_allowed(ip), not interleaved with any other.
RLCall ==
    /\ \E ip \in Ips :
        LET r == is_allowed(rl.requests, ip, rl.now)
        IN  rl' = [rl EXCEPT
                     !.requests = r.requests,
                     !.granted[ip] = IF r.allowed THEN Append(@, rl.now) ELSE @,
                     !.last = [ip |-> ip, time |-> rl.now, allowed |-> r.allowed,
                               inWindowBefore |-> InWindow(rl.granted[ip], rl.now)]]
    /\ UNCHANGED <<thr, notRL>>

RLNext == RLTick \/ RLCall

\* ---------------------------------------- RateLimiter, interleaved callers

\* is_allowed holds no lock: a thread may be pre-empted between any two of
\* its statements.  Each thread makes one call; thr[t].pc is the statement
\* it executes next, thr[t].now and thr[t].local are its local variables.

\* def is_allowed(self, ip): now = time.time()
TBegin(t) ==
    /\ thr[t].pc = "idle"
    /\ \E ip \in Ips :
        thr' = [thr EXCEPT ![t] = [@ EXCEPT !.pc = "key", !.ip = ip,
                                              !.now = rl.now]]
    /\ UNCHANGED <<rl, notRL>>

\* if ip not in self.requests:
TKey(t) ==
    /\ thr[t].pc = "key"
    /\ thr' = [thr EXCEPT ![t].pc =
                 IF thr[t].ip \in DOMAIN rl.requests THEN "filter" ELSE "setkey"]
    /\ UNCHANGED <<rl, notRL>>

\* self.requests[ip] = []
TSetKey(t) ==
    /\ thr[t].pc = "setkey"
    /\ rl' = [rl EXCEPT !.requests =
                IF thr[t].ip \in DOMAIN @
                THEN [@ EXCEPT ![thr[t].ip] = <<>>]
                ELSE @ @@ (thr[t].ip :> <<>>)]
    /\ thr' = [thr EXCEPT ![t].pc = "filter"]
    /\ UNCHANGED notRL

\* [req for req in self.requests[ip] if req > now - self.window_seconds]
TFilter(t) ==
    /\ thr[t].pc = "filter"
    /\ thr' = [thr EXCEPT ![t] = [@ EXCEPT
                 !.pc = "store",
                 !.local = Purge(rl.requests[thr[t].ip], thr[t].now)]]
    /\ UNCHANGED <<rl, notRL>>

\* self.requests[ip] = <the filtered list>
TStore(t) ==
    /\ thr[t].pc = "store"
    /\ rl' = [rl EXCEPT !.requests[thr[t].ip] = thr[t].local]
    /\ thr' = [thr EXCEPT ![t].pc = "limit"]
    /\ UNCHANGED notRL

\* if len(self.requests[ip]) >= self.max_requests: return False
TLimit(t) ==
    /\ thr[t].pc = "limit"
    /\ thr' = [thr EXCEPT ![t].pc =
                 IF LimitReached(rl.requests[thr[t].ip]) THEN "done" ELSE "append"]
    /\ UNCHANGED <<rl, notRL>>

\* self.requests[ip].append(now); return True
TAppend(t) ==
    /\ thr[t].pc = "append"
    /\ rl' = [rl EXCEPT !.requests[thr[t].ip] = Append(@, thr[t].now),
                        !.granted[thr[t].ip] = Append(@, thr[t].now)]
    /\ thr' = [thr EXCEPT ![t] = [@ EXCEPT !.pc = "done", !.allowed = TRUE]]
    /\ UNCHANGED notRL

RLConcNext ==
    \/ RLTick
    \/ \E t \in Threads :
         \/ TBegin(t) \/ TKey(t) \/ TSetKey(t) \/ TFilter(t)
         \/ TStore(t) \/ TLimit(t) \/ TAppend(t)

\* ------------------------------------------------- generate_review, set-up

\* Mutant of InitialState: real_reviews is stored as it was passed.
InitialState_without_placeholder(req) ==
    [theme |-> req.theme, rating |-> req.rating, category |-> req.category,
     attempts |-> 0,
     real_reviews |-> req.real_reviews,
     validation_result |-> NoValidation,
     generated_review |-> None,
     check_result |-> NoCheck]

\* generate_review: the initial ReviewState built from the arguments.
InitialState(req) ==
    [theme |-> req.theme, rating |-> req.rating, category |-> req.category,
     attempts |-> 0,
     real_reviews |-> IF req.real_reviews \in {None, ""}
                      THEN NO_EXAMPLES ELSE req.real_reviews,
     validation_result |-> NoValidation,
     generated_review |-> None,
     check_result |-> NoCheck]

\* ------------------------------------------------------- the graph's nodes

\* validate: the arguments VALIDATION_PROMPT.format is given.
VALIDATION_PROMPT(s) == [step |-> "validate", input_text |-> s.theme]

\* generate: the arguments GENERATION_PROMPT.format is given.
GENERATION_PROMPT(s) ==
    [step |-> "generate", category |-> s.category, rating |-> s.rating,
     theme |-> s.theme, real_reviews |-> s.real_reviews]

\* check: the arguments SELF_CHECK_PROMPT.format is given.
SELF_CHECK_PROMPT(s) ==
    [step |-> "check", generated_review |-> s.generated_review,
     theme |-> s.theme, rating |-> s.rating, category |-> s.category]

\* Mutant of create: a request is sent a second time.
create_with_retry(requests, prompt) == Append(Append(requests, prompt), prompt)

\* self.client.chat.completions.create: one request carrying one user
\* message, the rendered prompt.
create(requests, prompt) == Append(requests, prompt)

\* validate: the state after the reply was parsed.
ValidateUpdate(s, r) == [s EXCEPT !.validation_result = r]

\* Mutant of GenerateUpdate: a review already stored is kept.
GenerateKeepsFirst(s, text) ==
    IF s.generated_review = None THEN [s EXCEPT !.generated_review = text] ELSE s

\* Mutant of GenerateUpdate: the reply text is stored as the theme too.
GenerateUpdate_overwrites_theme(s, text) ==
    [s EXCEPT !.generated_review = text, !.theme = text]

\* generate: the state after the reply text was stored.
GenerateUpdate(s, text) == [s EXCEPT !.generated_review = text]

\* Mutant of CheckUpdate: a completed check counts for two attempts.
CheckUpdate_by_two(s, r) == [s EXCEPT !.check_result = r, !.attempts = @ + 2]

\* check: the state after the reply was parsed.
CheckUpdate(s, r) == [s EXCEPT !.check_result = r, !.attempts = @ + 1]

\* Mutant of CheckRaised: attempts is counted before the completion is
\* requested.
CheckRaisedCounted(s) == [s EXCEPT !.attempts = @ + 1]

\* check: the state when the completion or its parsing raised.
CheckRaised(s) == s

\* ------------------------------------------------------ conditional edges

\* Mutant of should_generate: the verdict of the validation is ignored.
should_generate_always(s) ==
    IF s.validation_result.kind # "obj" THEN "KeyError" ELSE "generate"

\* Mutant of should_generate: the two targets of the edge are swapped.
should_generate_swapped(s) ==
    IF s.validation_result.kind # "obj" THEN "KeyError"
    ELSE IF s.validation_result.is_valid THEN "end" ELSE "generate"

\* should_generate: the node after validate; "KeyError" when the lookup of
\* is_valid raises.
should_generate(s) ==
    IF s.validation_result.kind # "obj" THEN "KeyError"
    ELSE IF s.validation_result.is_valid THEN "generate" ELSE "end"

\* Mutant of passed: a score must exceed its threshold.
passed_strict(scores) == \A k \in DOMAIN QUALITY_THRESHOLD : scores[k] > QUALITY_THRESHOLD[k]

\* all(scores[k] >= QUALITY_THRESHOLD[k] for k in QUALITY_THRESHOLD)
passed(scores) == \A k \in DOMAIN QUALITY_THRESHOLD : scores[k] >= QUALITY_THRESHOLD[k]

\* Mutant of should_regenerate: the cap is tested with > instead of >=.
should_regenerate_off_by_one(s) ==
    IF s.attempts > AttemptCap THEN "end"
    ELSE IF s.check_result.kind # "obj" THEN "KeyError"
    ELSE IF passed(s.check_result.scores) THEN "end" ELSE "generate"

\* Mutant of should_regenerate: a failed check is repeated on the same text.
should_regenerate_recheck(s) ==
    IF s.attempts >= AttemptCap THEN "end"
    ELSE IF s.check_result.kind # "obj" THEN "KeyError"
    ELSE IF passed(s.check_result.scores) THEN "end" ELSE "check"

\* Mutant of should_regenerate: the examples decide whether a failed check
\* leads to another attempt.
should_regenerate_by_examples(s) ==
    IF s.attempts >= AttemptCap THEN "end"
    ELSE IF s.check_result.kind # "obj" THEN "KeyError"
    ELSE IF passed(s.check_result.scores)
            \/ s.real_reviews = ReviewsText(<<"Slow service.">>)
         THEN "end" ELSE "generate"

\* should_regenerate: the node after check; "KeyError" when the lookup of
\* scores raises.
should_regenerate(s) ==
    IF s.attempts >= AttemptCap THEN "end"
    ELSE IF s.check_result.kind # "obj" THEN "KeyError"
    ELSE IF passed(s.check_result.scores) THEN "end" ELSE "generate"

\* ------------------------------------------------ generate_review, policy

Returns(review, message) == [exc |-> NoExc, review |-> review, message |-> message]

Raises(e) == [exc |-> e, review |-> None, message |-> None]

\* generate_review: what the statements after workflow.invoke do with the
\* final state: return a pair, or raise.
PolicyResult(s) ==
    IF s.validation_result.kind # "obj" THEN Raises(KeyError("is_valid"))
    ELSE IF ~s.validation_result.is_valid THEN
        IF s.validation_result.error_type = Absent THEN Raises(KeyError("error_type"))
        ELSE IF s.validation_result.error_type \notin DOMAIN ERROR_MESSAGES
             THEN Raises(KeyError(s.validation_result.error_type))
        ELSE Returns(None, ERROR_MESSAGES[s.validation_result.error_type])
    ELSE IF s.check_result.kind = "obj" /\ s.check_result.verdict = "accept"
         THEN Returns(s.generated_review, None)
    ELSE IF s.check_result.kind = "obj" /\ s.attempts >= AttemptCap
         THEN Returns(s.generated_review, DEGRADED_MSG)
    ELSE Returns(None, ERROR_MESSAGES["validation_failed"])

\* Mutant of Catches: only the parser's ValueError is caught.
CatchesValueErrorOnly(e) == e.type = "ValueError"

\* generate_review: "except Exception" catches every exception a step raises.
Catches(e) == TRUE

\* Mutant of ApiErrorMessage: the except branch returns an empty message.
ApiErrorMessage_empty(e) == ""

\* generate_review: the message of the except branch.
ApiErrorMessage(e) == ERROR_MESSAGES["api_error"] \o " (" \o e.str \o ")"

\* ------------------------------------- one execution, as a step function

\* A configuration of one execution: where it is, its ReviewState, the
\* exception being raised and the pair returned.
Config(cpc, s, e, res) == [pc |-> cpc, state |-> s, exc |-> e, result |-> res]

IdleConfig == Config("idle", NoState, NoExc, NoResult)

\* What a model completion can deliver to the step at cpc, given the decoded
\* validation replies V and check replies C: an exception, or a value.
Replies(cpc, V, C) ==
    CASE cpc = "validate" ->
           { [exc |-> e, value |-> NoValidation] :
               e \in ApiErrors \cup {ParseError("validation")} }
           \cup { [exc |-> NoExc, value |-> r] : r \in V }
      [] cpc = "generate" ->
           { [exc |-> e, value |-> None] : e \in ApiErrors }
           \cup { [exc |-> NoExc, value |-> text] : text \in Texts }
      [] cpc = "check" ->
           { [exc |-> e, value |-> NoCheck] :
               e \in ApiErrors \cup {ParseError("quality check")} }
           \cup { [exc |-> NoExc, value |-> r] : r \in C }
      [] OTHER -> { [exc |-> NoExc, value |-> None] }

Running == {"validate", "generate", "check", "end", "policy", "except"}

\* The configuration after the step at c.pc was given reply r: the nodes,
\* their conditional edges, the result policy and the except branch.
ExecStep(c, r) ==
    CASE c.pc = "validate" ->
           IF r.exc # NoExc THEN [c EXCEPT !.pc = "except", !.exc = r.exc]
           ELSE LET s == ValidateUpdate(c.state, r.value)
                IN  IF should_generate(s) = "KeyError"
                    THEN Config("except", s, KeyError("is_valid"), c.result)
                    ELSE Config(should_generate(s), s, c.exc, c.result)
      [] c.pc = "generate" ->
           IF r.exc # NoExc THEN [c EXCEPT !.pc = "except", !.exc = r.exc]
           ELSE Config("check", GenerateUpdate(c.state, r.value), c.exc, c.result)
      [] c.pc = "check" ->
           IF r.exc # NoExc
           THEN Config("except", CheckRaised(c.state), r.exc, c.result)
           ELSE LET s == CheckUpdate(c.state, r.value)
                IN  IF should_regenerate(s) = "KeyError"
                    THEN Config("except", s, KeyError("scores"), c.result)
                    ELSE Config(should_regenerate(s), s, c.exc, c.result)
      [] c.pc = "end" -> [c EXCEPT !.pc = "policy"]
      [] c.pc = "policy" ->
           IF PolicyResult(c.state).exc = NoExc
           THEN [c EXCEPT !.pc = "returned",
                          !.result = [review |-> PolicyResult(c.state).review,
                                      message |-> PolicyResult(c.state).message]]
           ELSE [c EXCEPT !.pc = "except", !.exc = PolicyResult(c.state).exc]
      [] c.pc = "except" ->
           IF Catches(c.exc)
           THEN [c EXCEPT !.pc = "returned",
                          !.result = [review |-> None,
                                      message |-> ApiErrorMessage(c.exc)]]
           ELSE [c EXCEPT !.pc = "raised"]
      [] OTHER -> c

\* ------------------------------------------ two executions, side by side

Execs == {1, 2}

\* The ReviewGenerator instances an execution may run on.
Generators == {1, 2}

\* Mutant of Frame: both executions work on one ReviewState.
Frame_shared(p) == 1

\* generate_review: initial_state is a local of the call, and
\* workflow.invoke threads it through the nodes of that invocation only.
Frame(p) == p

\* The front-end has not called calculate_metrics.
NoMetrics == [computed |-> FALSE, values |-> <<>>]

\* The control of an execution that has not been called.
IdleExec ==
    [pc |-> "idle", gen |-> 0, reviews |-> <<>>, exc |-> NoExc,
     result |-> NoResult, metrics |-> NoMetrics]

\* The configuration of execution p.
ConfigOf(p) ==
    Config(execs[p].pc, frames[Frame(p)], execs[p].exc, execs[p].result)

\* The script before the button is pressed.
FEForm ==
    [pc |-> "form", theme |-> "", category |-> None, rating |-> 0,
     reviews |-> <<>>, exact_match |-> FALSE, shown |-> <<>>,
     limiterCalls |-> 0, steps |-> 0, used |-> FALSE]

FEInit == fe = FEForm

CCInit ==
    /\ execs = [p \in Execs |-> IdleExec]
    /\ frames = [f \in Execs |-> NoState]
    /\ alone = [p \in Execs |-> IdleConfig]

\* ------------------------------------------------- sessions and their log

\* st.session_state is kept per browser session: the script, run in a
\* session, finds or creates the rate_limiter of that session.
Sessions == {"session 1", "session 2"}

\* 'rate_limiter' not in st.session_state
NoLimiter == [present |-> FALSE, requests |-> <<>>]

\* No session has run the script; granted lists the times at which a call
\* of the caller client_ip was allowed, in any session.
SSInit ==
    ss = [now |-> 0, state |-> [s \in Sessions |-> NoLimiter], granted |-> <<>>]

\* st.session_state.app_logs = [], nothing emitted; an entry is the number
\* of its emission.
LGInit == lg = [app_logs |-> <<>>, emitted |-> 0]

\* ------------------------------------------- offline data preparation, set-up

\* wait_for_db(max_attempts=30, delay=2)
DefaultMaxAttempts == 30

DefaultDelay == 2

\* wait_for_db has raised nothing.
NotRaised == [type |-> "None", attempts |-> 0, cause |-> None]

\* wait_for_db has not been called; tries counts the passes through the try
\* block, last is what the latest of them met, sleeps counts the time.sleep
\* calls and slept adds up their arguments.
WDIdle ==
    [pc |-> "idle", max_attempts |-> 0, delay |-> 0, attempt |-> 0,
     tries |-> 0, last |-> None, sleeps |-> 0, slept |-> 0, returned |-> None, raised |-> NotRaised]

WDInit == wd = WDIdle

\* check_and_truncate_tokens has not been called.
TKIdle ==
    [pc |-> "idle", df |-> <<>>, saved |-> <<>>,
     truncated_reviews |-> <<>>, still_exceeds |-> <<>>]

TKInit == tk = TKIdle

\* ----------------------------------------------------------------- actions

WfInit ==
    /\ pc = "idle"
    /\ request = NoRequest
    /\ state = NoState
    /\ exc = NoExc
    /\ failedStep = None
    /\ result = NoResult
    /\ escaped = FALSE
    /\ calls = 0
    /\ nValidate = 0
    /\ nGenerate = 0
    /\ nCheck = 0
    /\ genLog = <<>>
    /\ firstVerdict = None
    /\ allReject = TRUE
    /\ endReached = FALSE
    /\ sent = <<>>

Init ==
    /\ WfInit /\ RLInit /\ CCInit /\ DBInit /\ FEInit /\ PJInit /\ SSInit
    /\ LGInit /\ WDInit /\ TKInit

\* A step raises e: control leaves the graph for the except branch.
Fail(step, e) ==
    /\ exc' = e
    /\ failedStep' = step
    /\ pc' = "except"

\* generate_review is called: it builds the initial state and invokes the
\* graph, whose entry point is validate.
Start ==
    /\ pc = "idle"
    /\ \E req \in Requests :
        /\ request' = req
        /\ state' = InitialState(req)
    /\ pc' = "validate"
    /\ UNCHANGED <<exc, failedStep, result, escaped, calls, nValidate,
                   nGenerate, nCheck, hist, endReached, sent>>
    /\ UNCHANGED envVars

\* The validate node and its conditional edge.
Validate ==
    /\ pc = "validate"
    /\ calls' = calls + 1
    /\ nValidate' = nValidate + 1
    /\ sent' = create(sent, VALIDATION_PROMPT(state))
    /\ \/ \E e \in ApiErrors :
            /\ Fail("validate", e)
            /\ UNCHANGED state
       \/ /\ Fail("validate", ParseError("validation"))
          /\ UNCHANGED state
       \/ \E r \in ValidationObjects :
            /\ state' = ValidateUpdate(state, r)
            /\ IF should_generate(state') = "KeyError"
               THEN Fail("should_generate", KeyError("is_valid"))
               ELSE /\ pc' = should_generate(state')
                    /\ UNCHANGED <<exc, failedStep>>
    /\ UNCHANGED <<request, result, escaped, nGenerate, nCheck, hist, endReached>>
    /\ UNCHANGED envVars

\* The generate node and its edge to check.
Generate ==
    /\ pc = "generate"
    /\ calls' = calls + 1
    /\ nGenerate' = nGenerate + 1
    /\ sent' = create(sent, GENERATION_PROMPT(state))
    /\ \/ \E e \in ApiErrors :
            /\ Fail("generate", e)
            /\ UNCHANGED <<state, genLog>>
       \/ \E text \in Texts :
            /\ state' = GenerateUpdate(state, text)
            /\ genLog' = Append(genLog, text)
            /\ pc' = "check"
            /\ UNCHANGED <<exc, failedStep>>
    /\ UNCHANGED <<request, result, escaped, nValidate, nCheck, firstVerdict,
                   allReject, endReached>>
    /\ UNCHANGED envVars

\* The check node and its conditional edge.
Check ==
    /\ pc = "check"
    /\ calls' = calls + 1
    /\ nCheck' = nCheck + 1
    /\ sent' = create(sent, SELF_CHECK_PROMPT(state))
    /\ \/ \E e \in ApiErrors :
            /\ Fail("check", e)
            /\ state' = CheckRaised(state)
            /\ UNCHANGED <<firstVerdict, allReject>>
       \/ /\ Fail("check", ParseError("quality check"))
          /\ state' = CheckRaised(state)
          /\ UNCHANGED <<firstVerdict, allReject>>
       \/ \E r \in CheckObjects :
            /\ state' = CheckUpdate(state, r)
            /\ firstVerdict' = IF nCheck = 0 THEN r.verdict ELSE firstVerdict
            /\ allReject' = (allReject /\ r.verdict = "reject")
            /\ IF should_regenerate(state') = "KeyError"
               THEN Fail("should_regenerate", KeyError("scores"))
               ELSE /\ pc' = should_regenerate(state')
                    /\ UNCHANGED <<exc, failedStep>>
    /\ UNCHANGED <<request, result, escaped, nValidate, nGenerate, genLog,
                   endReached>>
    /\ UNCHANGED envVars

\* The end node: the graph stops and workflow.invoke returns the state.
End ==
    /\ pc = "end"
    /\ endReached' = TRUE
    /\ pc' = "policy"
    /\ UNCHANGED <<request, state, exc, failedStep, result, escaped, calls,
                   nValidate, nGenerate, nCheck, hist, sent>>
    /\ UNCHANGED envVars

\* generate_review after workflow.invoke: the result policy.
Policy ==
    /\ pc = "policy"
    /\ IF PolicyResult(state).exc = NoExc
       THEN /\ result' = [review |-> PolicyResult(state).review,
                          message |-> PolicyResult(state).message]
            /\ pc' = "returned"
            /\ UNCHANGED <<exc, failedStep>>
       ELSE /\ Fail("policy", PolicyResult(state).exc)
            /\ UNCHANGED result
    /\ UNCHANGED <<request, state, escaped, calls, nValidate, nGenerate,
                   nCheck, hist, endReached, sent>>
    /\ UNCHANGED envVars

\* generate_review's except branch.
Except ==
    /\ pc = "except"
    /\ IF Catches(exc)
       THEN /\ result' = [review |-> None, message |-> ApiErrorMessage(exc)]
            /\ UNCHANGED escaped
       ELSE /\ escaped' = TRUE
            /\ UNCHANGED result
    /\ pc' = "returned"
    /\ UNCHANGED <<request, state, exc, failedStep, calls, nValidate,
                   nGenerate, nCheck, hist, endReached, sent>>
    /\ UNCHANGED envVars

Next == Start \/ Validate \/ Generate \/ Check \/ End \/ Policy \/ Except

Spec == Init /\ [][Next]_vars

\* One execution is a sequential pipeline: a step that is reached runs.
FairSpec == Spec /\ WF_vars(Next)

\* --------------------------------------------- concurrent generate_review

\* The replies explored when two executions interleave.
ConcValidations ==
    { [kind |-> "obj", is_valid |-> TRUE, error_type |-> None],
      [kind |-> "obj", is_valid |-> FALSE, error_type |-> "nsfw"] }

ConcChecks ==
    { [kind |-> "obj", verdict |-> v, scores |-> [k \in Dims |-> n]] :
        v \in Verdicts, n \in {6, 7} }

\* The request each of the two executions is called with.
ConcRequest(p) ==
    [theme |-> "coffee", rating |-> IF p = 1 THEN 1 ELSE 5, category |-> "cafe",
     real_reviews |-> IF p = 1 THEN None ELSE "Example 1: ..."]

\* Execution p calls generate_review on some ReviewGenerator.
CCStart(p) ==
    /\ execs[p].pc = "idle"
    /\ \E g \in Generators :
        execs' = [execs EXCEPT ![p] = [@ EXCEPT !.pc = "validate", !.gen = g]]
    /\ frames' = [frames EXCEPT ![Frame(p)] = InitialState(ConcRequest(p))]
    /\ alone' = [alone EXCEPT ![p] =
                   Config("validate", InitialState(ConcRequest(p)), NoExc, NoResult)]
    /\ UNCHANGED notCC

\* Execution p takes its next step; the same step, with the same reply, is
\* taken by the replay of p on its own.
CCStep(p) ==
    /\ execs[p].pc \in Running
    /\ \E r \in Replies(execs[p].pc, ConcValidations, ConcChecks) :
        LET c == ExecStep(ConfigOf(p), r)
        IN  /\ execs' = [execs EXCEPT ![p] = [@ EXCEPT !.pc = c.pc, !.exc = c.exc,
                                                       !.result = c.result]]
            /\ frames' = [frames EXCEPT ![Frame(p)] = c.state]
            /\ alone' = [alone EXCEPT ![p] = ExecStep(@, r)]
    /\ UNCHANGED notCC

CCNext == \E p \in Execs : CCStart(p) \/ CCStep(p)

\* Two executions of generate_review, their steps interleaved.
ConcSpec == Init /\ [][CCNext]_vars

\* ------------------------------------- front-end helper, two runs compared

\* Mutant of Truthy: no message counts as an error.
Truthy_never(x) == FALSE

\* The truth value Python gives a returned message.
Truthy(x) == x \notin {None, ""}

\* Two runs of the front-end's generate_review are called with the same
\* theme, rating and category and with example lists of their own.
PairStart ==
    /\ \A p \in Execs : execs[p].pc = "idle"
    /\ \E rating \in {1, 5}, l1 \in ExampleLists, l2 \in ExampleLists :
        LET l == [p \in Execs |-> IF p = 1 THEN l1 ELSE l2]
        IN  /\ execs' = [p \in Execs |->
                           [execs[p] EXCEPT !.pc = "validate", !.gen = 1,
                                            !.reviews = l[p]]]
            /\ frames' = [f \in Execs |->
                            InitialState([theme |-> "coffee", rating |-> rating,
                                          category |-> "cafe",
                                          real_reviews |-> ReviewsText(l[f])])]
    /\ UNCHANGED <<alone, notCC>>

\* Both runs take their next step and are given the same model reply.
PairStep ==
    /\ execs[1].pc \in Running
    /\ \E r \in Replies(execs[1].pc, ValidationObjects, CheckObjects) :
        LET c == [p \in Execs |-> ExecStep(ConfigOf(p), r)]
        IN  /\ execs' = [p \in Execs |->
                           [execs[p] EXCEPT !.pc = c[p].pc, !.exc = c[p].exc,
                                            !.result = c[p].result]]
            /\ frames' = [f \in Execs |-> c[f].state]
    /\ UNCHANGED <<alone, notCC>>

\* The metrics calculate_metrics(review, reviews) may return: one value per
\* example.
Metrics(reviews) == [1..Len(reviews) -> MetricValues]

\* The helper after generate_review returned: an error is shown and the
\* helper returns; otherwise the review is shown and the metrics computed.
PairShow ==
    /\ \A p \in Execs : execs[p].pc = "returned"
    /\ \E m1 \in Metrics(execs[1].reviews), m2 \in Metrics(execs[2].reviews) :
        execs' = [p \in Execs |->
                    [execs[p] EXCEPT
                       !.pc = "shown",
                       !.metrics =
                           IF Truthy(execs[p].result.message) THEN NoMetrics
                           ELSE [computed |-> TRUE,
                                 values |-> IF execs[p].reviews = <<>> THEN <<>>
                                            ELSE IF p = 1 THEN m1 ELSE m2]]]
    /\ UNCHANGED <<frames, alone, notCC>>

PairNext == PairStart \/ PairStep \/ PairShow

\* Two runs of the helper given the same model replies.
PairSpec == Init /\ [][PairNext]_vars

\* ------------------------------------------------------------ front-end

\* The texts the script displays.
FILL_FIELDS == "Please fill in all fields!"

NO_DATA(category) ==
    "No reviews found in the database for rubric '" \o category \o "'"

FALLBACK_INFO == "Random reviews of this rubric will be used."

RATE_LIMITED == "Request limit exceeded. Please try again later."

\* hasattr(st, 'get_client_ip') is false: the helper's caller identity.
client_ip == "unknown"

\* Mutant of NoReviews: the retrieved list is never taken to be empty.
NoReviews_never(reviews) == FALSE

\* if not reviews:
NoReviews(reviews) == reviews = <<>>

\* The database is loaded before the script is first used.
FESeed ==
    /\ ~fe.used
    /\ DBInsert

\* The button is pressed: the script checks the fields, retrieves the
\* examples and either reports their absence or goes on to the helper.
FEClick ==
    /\ fe.pc = "form"
    /\ \E theme \in {"", "coffee"}, category \in Categories \cup {None},
          rating \in Ratings :
        LET run == [FEForm EXCEPT !.theme = theme, !.category = category,
                                  !.rating = rating, !.used = TRUE]
        IN  IF theme = "" \/ category = None
            THEN fe' = [run EXCEPT !.pc = "done", !.shown = <<FILL_FIELDS>>]
            ELSE \E r \in get_relevant_reviews(db.rows, category, rating,
                                               DefaultLimit) :
                   fe' = IF NoReviews(r.reviews)
                         THEN [run EXCEPT !.pc = "done",
                                          !.shown = <<NO_DATA(category)>>]
                         ELSE [run EXCEPT !.pc = "helper",
                                          !.reviews = r.reviews,
                                          !.exact_match = r.exact_match,
                                          !.shown = IF r.exact_match THEN <<>>
                                                    ELSE <<FALLBACK_INFO>>]
    /\ UNCHANGED <<wfVars, pjVars, ssVars, lgVars, opVars, rlVars, ccVars, db>>

\* Mutant of NotAllowed: the answer of the limiter is ignored.
NotAllowed_ignored(allowed) == FALSE

\* if not st.session_state.rate_limiter.is_allowed(client_ip):
NotAllowed(allowed) == ~allowed

\* The helper's rate-limit check.
FERateLimit ==
    /\ fe.pc = "helper"
    /\ LET r == is_allowed(rl.requests, client_ip, rl.now)
       IN  /\ rl' = [rl EXCEPT
                       !.requests = r.requests,
                       !.granted[client_ip] =
                           IF r.allowed THEN Append(@, rl.now) ELSE @,
                       !.last = [ip |-> client_ip, time |-> rl.now,
                                 allowed |-> r.allowed,
                                 inWindowBefore |->
                                     InWindow(rl.granted[client_ip], rl.now)]]
           /\ fe' = IF NotAllowed(r.allowed)
                    THEN [fe EXCEPT !.pc = "done", !.limiterCalls = @ + 1,
                                    !.shown = Append(@, RATE_LIMITED)]
                    ELSE [fe EXCEPT !.pc = "call", !.limiterCalls = @ + 1]
    /\ UNCHANGED <<wfVars, pjVars, ssVars, lgVars, opVars, thr, ccVars, db>>

\* The helper calls review_generator.generate_review with the joined examples.
FECall ==
    /\ fe.pc = "call"
    /\ execs' = [execs EXCEPT ![1] = [IdleExec EXCEPT !.pc = "validate", !.gen = 1,
                                                      !.reviews = fe.reviews]]
    /\ frames' = [frames EXCEPT ![Frame(1)] =
                    InitialState([theme |-> fe.theme, rating |-> fe.rating,
                                  category |-> fe.category,
                                  real_reviews |-> ReviewsText(fe.reviews)])]
    /\ fe' = [fe EXCEPT !.pc = "waiting"]
    /\ UNCHANGED <<wfVars, pjVars, ssVars, lgVars, opVars, rlVars, alone, db>>

\* One step of the execution the helper waits for.
FEStep ==
    /\ fe.pc = "waiting"
    /\ execs[1].pc \in Running
    /\ \E r \in Replies(execs[1].pc, ConcValidations, ConcChecks) :
        LET c == ExecStep(ConfigOf(1), r)
        IN  /\ execs' = [execs EXCEPT ![1] = [@ EXCEPT !.pc = c.pc, !.exc = c.exc,
                                                       !.result = c.result]]
            /\ frames' = [frames EXCEPT ![Frame(1)] = c.state]
    /\ fe' = [fe EXCEPT !.steps =
                IF execs[1].pc \in {"validate", "generate", "check"}
                THEN @ + 1 ELSE @]
    /\ UNCHANGED <<wfVars, pjVars, ssVars, lgVars, opVars, rlVars, alone, db>>

\* generate_review returned: an error is shown, or the review is shown and
\* the metrics are computed.
FEReturn ==
    /\ fe.pc = "waiting"
    /\ execs[1].pc = "returned"
    /\ IF Truthy(execs[1].result.message)
       THEN /\ fe' = [fe EXCEPT !.pc = "done",
                                !.shown = Append(@, execs[1].result.message)]
            /\ execs' = [execs EXCEPT ![1].pc = "shown"]
       ELSE /\ fe' = [fe EXCEPT !.pc = "done",
                                !.shown = Append(@, execs[1].result.review)]
            /\ \E m \in Metrics(fe.reviews) :
                 execs' = [execs EXCEPT ![1] =
                             [@ EXCEPT !.pc = "shown",
                                       !.metrics = [computed |-> TRUE,
                                                    values |-> m]]]
    /\ UNCHANGED <<wfVars, pjVars, ssVars, lgVars, opVars, rlVars, frames, alone, db>>

\* The page is shown again, ready for the next press of the button; the
\* locals of the run that ended are gone.
FERerun ==
    /\ fe.pc = "done"
    /\ fe' = [FEForm EXCEPT !.used = TRUE]
    /\ execs' = [execs EXCEPT ![1] = IdleExec]
    /\ frames' = [frames EXCEPT ![Frame(1)] = NoState]
    /\ UNCHANGED <<wfVars, pjVars, ssVars, lgVars, opVars, rlVars, alone, db>>

FENext ==
    \/ FESeed \/ FEClick \/ FERateLimit \/ FECall \/ FEStep \/ FEReturn
    \/ FERerun

\* The front-end script with its store, limiter and generator.
FESpec == Init /\ [][FENext]_vars

\* ------------------------------------------- front-end sessions, limiters

\* time.time() advances.
SSTick ==
    /\ ss.now < MaxTime
    /\ ss' = [ss EXCEPT !.now = @ + 1]
    /\ UNCHANGED notSS

\* The script runs in a session that has no rate_limiter yet.
SSRun(s) ==
    /\ ~ss.state[s].present
    /\ ss' = [ss EXCEPT !.state[s] = [present |-> TRUE, requests |-> <<>>]]
    /\ UNCHANGED notSS

\* The helper generate_review runs in session s: the limiter of that
\* session is asked about client_ip.
SSCall(s) ==
    /\ ss.state[s].present
    /\ LET r == is_allowed(ss.state[s].requests, client_ip, ss.now)
       IN  ss' = [ss EXCEPT
                    !.state[s].requests = r.requests,
                    !.granted = IF r.allowed THEN Append(@, ss.now) ELSE @]
    /\ UNCHANGED notSS

SSNext == SSTick \/ \E s \in Sessions : SSRun(s) \/ SSCall(s)

\* Sessions of one process, each calling the limiter it holds.
SSSpec == Init /\ [][SSNext]_vars

\* ------------------------------------------------------ the session log

\* app.py, SessionStateHandler.emit: the length above which the oldest
\* entry is dropped.
APP_LOG_CAP == 50

\* src/llm, SessionStateHandler.emit: the length above which the oldest
\* entry is dropped.
LLM_LOG_CAP == 100

\* app.py's handler: append, then one pop(0) when the list is longer than 50.
emit_app(app_logs, log_entry) ==
    LET appended == Append(app_logs, log_entry)
    IN  IF Len(appended) > APP_LOG_CAP THEN Tail(appended) ELSE appended

\* The review generator's handler: append, then one pop(0) when the list is
\* longer than 100.
emit_llm(app_logs, log_entry) ==
    LET appended == Append(app_logs, log_entry)
    IN  IF Len(appended) > LLM_LOG_CAP THEN Tail(appended) ELSE appended

\* A record logged through the root logger (logging.info of app.py) reaches
\* app.py's handler.
LGEmitApp ==
    /\ lg.emitted < MaxEmits
    /\ lg' = [app_logs |-> emit_app(lg.app_logs, lg.emitted + 1),
              emitted |-> lg.emitted + 1]
    /\ UNCHANGED notLG

\* A record logged through the 'review_generator' logger, which does not
\* propagate, reaches the review generator's handler.
LGEmitLlm ==
    /\ lg.emitted < MaxEmits
    /\ lg' = [app_logs |-> emit_llm(lg.app_logs, lg.emitted + 1),
              emitted |-> lg.emitted + 1]
    /\ UNCHANGED notLG

LGNext == LGEmitApp \/ LGEmitLlm

\* The two handlers writing to the one buffer of a session.
LGSpec == Init /\ [][LGNext]_vars

\* ------------------------------------------------------------ wait_for_db

\* What one pass through the try block meets: check_port_open returns False
\* (socket.error is raised), create_engine / engine.connect raises,
\* the SELECT 1 raises, or all three succeed.
WDOutcomes == {"port closed", "connect failed", "query failed", "connected"}

\* The engine create_engine built.
Engine == "engine"

\* for attempt in range(max_attempts): there is a pass for attempt.
InRange(attempt, max_attempts) == attempt < max_attempts

\* The same test failing one attempt late.
LastAttempt_off_by_one(attempt, max_attempts) == attempt = max_attempts

\* if attempt == max_attempts - 1
LastAttempt(attempt, max_attempts) == attempt = max_attempts - 1

\* The exception wait_for_db raises when it gives up.
WDFailed(max_attempts, outcome) ==
    [type |-> "Exception", attempts |-> max_attempts, cause |-> outcome]

\* wait_for_db is called; the loop starts with attempt 0, or is over at
\* once when range(max_attempts) is empty, the function then returning None.
WDCall ==
    /\ wd.pc = "idle"
    /\ \E m \in (1..MaxWaitAttempts) \cup {DefaultMaxAttempts},
          d \in (1..MaxDelay) \cup {DefaultDelay} :
          wd' = [wd EXCEPT !.max_attempts = m, !.delay = d,
                           !.pc = IF InRange(0, m) THEN "try" ELSE "returned"]
    /\ UNCHANGED notWD

\* One pass of the loop body up to the sleep: the try block, and on an
\* exception the handler, which raises on the last attempt.
WDAttempt ==
    /\ wd.pc = "try"
    /\ \E o \in WDOutcomes :
          LET tried == [wd EXCEPT !.tries = @ + 1, !.last = o]
          IN  wd' = IF o = "connected"
                    THEN [tried EXCEPT !.pc = "returned", !.returned = Engine]
                    ELSE IF LastAttempt(wd.attempt, wd.max_attempts)
                    THEN [tried EXCEPT
                            !.pc = "raised",
                            !.raised = WDFailed(wd.max_attempts, o)]
                    ELSE [tried EXCEPT !.pc = "sleep"]
    /\ UNCHANGED notWD

\* time.sleep(delay), then the loop's next attempt; when the range is
\* exhausted the function falls off its end and returns None.
WDSleep ==
    /\ wd.pc = "sleep"
    /\ wd' = [wd EXCEPT
                !.sleeps = @ + 1,
                !.slept = @ + wd.delay,
                !.attempt = @ + 1,
                !.pc = IF InRange(wd.attempt + 1, wd.max_attempts)
                       THEN "try" ELSE "returned"]
    /\ UNCHANGED notWD

WDNext == WDCall \/ WDAttempt \/ WDSleep

\* One call of wait_for_db.
WDSpec == Init /\ [][WDNext]_vars

\* ------------------------------------------------ check_and_truncate_tokens

\* The words of the review texts.
Words == {"good", "great"}

\* The suffix token of the tokenizer's vocabulary.
SuffixTokens == {"##at"}

\* tokenizer.encode of one word: "great" is split into a stem and a suffix.
WordTokens(word) ==
    IF word = "great" THEN <<"gre", "##at">> ELSE <<word>>

RECURSIVE encode(_)
\* tokenizer.encode(text, add_special_tokens=False): the tokens of the words,
\* in order.
encode(words) ==
    IF words = <<>> THEN <<>>
    ELSE WordTokens(Head(words)) \o encode(Tail(words))

\* A stem and its suffix joined into the word they spell.
Joined(stem, suffix) ==
    IF stem = "gre" /\ suffix = "##at" THEN "great" ELSE stem

RECURSIVE decode(_)
\* tokenizer.decode(tokens, clean_up_tokenization_spaces=True): a suffix token
\* is attached to the token before it, the other tokens are words.
decode(tokens) ==
    IF tokens = <<>> THEN <<>>
    ELSE IF Len(tokens) >= 2 /\ tokens[2] \in SuffixTokens
         THEN <<Joined(tokens[1], tokens[2])>> \o decode(SubSeq(tokens, 3, Len(tokens)))
    ELSE <<tokens[1]>> \o decode(Tail(tokens))

\* A missing text, for which pd.isna is true.
NaN == [na |-> TRUE, words |-> <<>>]

\* A text of the given words.
Text(words) == [na |-> FALSE, words |-> words]

\* The longest text, in words: one token more than the limit at least.
MaxWords == TokenLimit + 1

RECURSIVE WordSeqs(_)
\* The sequences of at most n words.
WordSeqs(n) ==
    IF n = 0 THEN {<<>>}
    ELSE LET shorter == WordSeqs(n - 1)
         IN  shorter \cup {Append(w, x) : w \in shorter, x \in Words}

\* The values of the text column.
ReviewTexts == {NaN} \cup {Text(w) : w \in WordSeqs(MaxWords)}

\* The DataFrames read from the Parquet file, a row being its text.
DataFrames ==
    UNION { [1..n -> ReviewTexts] : n \in 1..MaxReviews }

\* process_text(text), token_limit being the enclosing function's argument:
\* the row's three new columns.
process_text(text, token_limit) ==
    IF text.na
    THEN [tokens_num |-> 0, text |-> text, is_trunc_for_token_limit |-> 0]
    ELSE LET tokens == encode(text.words)
             token_count == Len(tokens)
         IN  IF token_count > token_limit
             THEN LET truncated_tokens == SubSeq(tokens, 1, token_limit)
                  IN  [tokens_num |-> token_count,
                       text |-> Text(decode(truncated_tokens)),
                       is_trunc_for_token_limit |-> 1]
             ELSE [tokens_num |-> token_count, text |-> text,
                   is_trunc_for_token_limit |-> 0]

\* df[df['is_trunc_for_token_limit'] == 1]
Truncated(row) == row.is_trunc_for_token_limit = 1

\* df[df['tokens_num'] > token_limit]
Exceeds(row) == row.tokens_num > TokenLimit

\* pd.read_parquet(parquet_path)
TKLoad ==
    /\ tk.pc = "idle"
    /\ \E df \in DataFrames :
          tk' = [tk EXCEPT !.pc = "loaded", !.df = df]
    /\ UNCHANGED notTK

\* df['text'].progress_apply(process_text), the result replacing the text
\* column, and df.to_parquet.
TKProcess ==
    /\ tk.pc = "loaded"
    /\ LET processed ==
              [i \in 1..Len(tk.df) |-> process_text(tk.df[i], TokenLimit)]
       IN  tk' = [tk EXCEPT !.pc = "processed", !.df = processed,
                            !.saved = processed]
    /\ UNCHANGED notTK

\* The two reports: the reviews that were truncated, and the reviews that
\* still exceed the limit.
TKReport ==
    /\ tk.pc = "processed"
    /\ tk' = [tk EXCEPT
                !.pc = "checked",
                !.truncated_reviews = SelectSeq(tk.df, Truncated),
                !.still_exceeds = SelectSeq(tk.df, Exceeds)]
    /\ UNCHANGED notTK

TKNext == TKLoad \/ TKProcess \/ TKReport

\* One call of check_and_truncate_tokens.
TKSpec == Init /\ [][TKNext]_vars

\* -------------------------------------------- collaborators' specifications

\* Sequential calls of is_allowed on one RateLimiter.
RLSpec == Init /\ [][RLNext]_vars

\* The retrieval store and calls of get_relevant_reviews.
DBSpec == Init /\ [][DBNext]_vars

\* JsonHelper given one reply after another.
PJSpec == Init /\ [][PJNext]_vars

\* RateLimiter with several threads inside is_allowed at once.
RLConcSpec == Init /\ [][RLConcNext]_vars

\* ------------------------------------------------------- derived notions

\* The execution has returned a pair without any step having raised.
ReturnedNormally == pc = "returned" /\ exc = NoExc

\* The validation reply was an object that accepts the theme.
ValidationPassed ==
    state.validation_result.kind = "obj" /\ state.validation_result.is_valid

\* The validation reply was an object that rejects the theme.
ValidationRejected ==
    state.validation_result.kind = "obj" /\ ~state.validation_result.is_valid

\* The text stored by the most recent Generate step.
LastGenerated == genLog[Len(genLog)]

\* The exceptions of a failed completion or of a reply that does not decode.
CallOrParseFailure(e) ==
    e \in ApiErrors \/ e.type = "ValueError"

\* --------------------------------------------------------------------- C1

\* C1: generate_review never lets an exception reach its caller: whenever
\* a model call or the parsing of a reply failed in Validate, Generate or
\* Check, it returns (None, the API-error message with the failure's text
\* appended in parentheses).
C1_FailuresBecomeApiError ==
    /\ ~escaped
    /\ (pc = "returned" /\ failedStep \in {"validate", "generate", "check"}) =>
          result = [review |-> None,
                    message |-> ERROR_MESSAGES["api_error"] \o " (" \o exc.str \o ")"]

C1_Witness ==
    /\ pc = "returned"
    /\ failedStep = "check"
    /\ exc = ParseError("quality check")
    /\ nCheck = 2
    /\ result.review = None

\* --------------------------------------------------------------------- C2

\* C2: when the validation result rejects the theme with a known
\* error_type, no Generate and no Check step is ever executed, attempts
\* stays 0, and generate_review returns (None, the message mapped to that
\* error_type) after the end node.
C2_KnownRejectionShortCircuits ==
    (ValidationRejected /\ state.validation_result.error_type \in KnownErrorTypes) =>
        /\ nGenerate = 0
        /\ nCheck = 0
        /\ state.attempts = 0
        /\ pc = "returned" =>
            /\ endReached
            /\ result = [review |-> None,
                         message |-> ERROR_MESSAGES[state.validation_result.error_type]]

C2_Witness ==
    /\ pc = "returned"
    /\ ValidationRejected
    /\ state.validation_result.error_type = "nsfw"
    /\ result.message = ERROR_MESSAGES["nsfw"]

\* --------------------------------------------------------------------- C3

\* C3: when validation passes and every Check rejects by verdict, the
\* workflow ends with attempts = 3 after exactly 3 Generate and 3 Check
\* steps, and generate_review returns the 3rd generated text with the
\* degraded-quality message.
C3_AllRejectRunsThreeCycles ==
    (ReturnedNormally /\ ValidationPassed /\ nCheck >= 1 /\ allReject) =>
        /\ state.attempts = AttemptCap
        /\ nGenerate = 3
        /\ nCheck = 3
        /\ result = [review |-> LastGenerated, message |-> DEGRADED_MSG]

\* --------------------------------------------------------------------- C4

\* C4: when validation passes and the first Check accepts by verdict, no
\* second Generate step is executed and the workflow ends with attempts = 1.
C4_FirstAcceptEndsAfterOneCycle ==
    (firstVerdict = "accept" /\ exc = NoExc) =>
        /\ nGenerate = 1
        /\ pc = "returned" => state.attempts = 1

\* --------------------------------------------------------------------- C5

\* C5: every execution terminates; unless a step raised, it reaches the end
\* node. A Check that brings attempts to the cap is followed by the end
\* node whatever its scores and verdict are, so no execution performs more
\* than 3 Generate steps or more than 3 Check steps.
C5_BoundedTermination ==
    /\ [](nGenerate <= AttemptCap /\ nCheck <= AttemptCap)
    /\ [][(state'.attempts # state.attempts /\ state'.attempts >= AttemptCap)
            => pc' = "end"]_vars
    /\ [](ReturnedNormally => endReached)
    /\ <>(pc = "returned")

C5_Witness ==
    /\ ReturnedNormally
    /\ endReached
    /\ nGenerate = 3
    /\ nCheck = 3
    /\ state.check_result.kind = "obj"
    /\ ~passed(state.check_result.scores)

\* --------------------------------------------------------------------- C6

C7_StrictAndGate ==
    (ReturnedNormally /\ ValidationPassed /\ state.check_result.kind = "obj"
        /\ ~passed(state.check_result.scores)) =>
        /\ ~(result.review # None /\ result.message = None)
        /\ state.attempts >= AttemptCap =>
              result = [review |-> LastGenerated, message |-> DEGRADED_MSG]

\* --------------------------------------------------------------------- C8

\* C8: the fall-through of generate_review is unreachable: an execution
\* that passed validation and reached the end node has a last check that is
\* accepted by verdict or is at the attempt cap, and never returns (None,
\* validation-failed message).
C8_FallThroughUnreachable ==
    /\ (pc = "policy" /\ ValidationPassed) =>
          \/ state.check_result.kind = "obj" /\ state.check_result.verdict = "accept"
          \/ state.attempts >= AttemptCap
    /\ (ReturnedNormally /\ ValidationPassed) =>
          result # [review |-> None, message |-> ERROR_MESSAGES["validation_failed"]]

\* --------------------------------------------------------------------- C9

\* C9: a rejected validation is reported with the message of its error_type
\* when that is non_russian, nsfw, irrelevant or gibberish, and with the
\* generic validation-failed message for any other or absent error_type;
\* never as an API error.
C9_RejectionMessageIsFixed ==
    (pc = "returned" /\ ValidationRejected) =>
        result = [review |-> None,
                  message |-> IF state.validation_result.error_type \in KnownErrorTypes
                              THEN ERROR_MESSAGES[state.validation_result.error_type]
                              ELSE ERROR_MESSAGES["validation_failed"]]

\* --------------------------------------------------------------------- C10

\* C10: a failed model call or parse failure ends the request: the failing
\* step leaves attempts as it was, and once an exception is raised no
\* further Validate, Generate or Check step runs, no further model call is
\* made, attempts does not change, and the next step returns.
C10_FailureEndsRequest ==
    [][ /\ (exc = NoExc /\ CallOrParseFailure(exc')) =>
              /\ state'.attempts = state.attempts
              /\ pc' = "except"
        /\ exc # NoExc =>
              /\ calls' = calls
              /\ nValidate' = nValidate
              /\ nGenerate' = nGenerate
              /\ nCheck' = nCheck
              /\ state'.attempts = state.attempts
              /\ pc' = "returned" ]_vars

C10_Witness ==
    /\ pc = "returned"
    /\ failedStep = "check"
    /\ exc.type = "APITimeoutError"
    /\ nCheck = 2
    /\ state.attempts = 1
    /\ calls = 5

\* --------------------------------------------------------------------- C11

C20_RoutingByScoresAndCap ==
    /\ [][ (state'.attempts # state.attempts /\ state'.check_result.kind = "obj") =>
             /\ pc' = "generate" <=>
                   /\ state'.attempts < AttemptCap
                   /\ \E k \in Dims : state'.check_result.scores[k] < QUALITY_THRESHOLD[k]
             /\ pc' = "end" <=>
                   \/ state'.attempts >= AttemptCap
                   \/ \A k \in Dims : state'.check_result.scores[k] >= QUALITY_THRESHOLD[k] ]_vars
    /\ [](pc = "check" =>
            \A sc \in ScoreMaps :
                should_regenerate(CheckUpdate(state,
                    [kind |-> "obj", verdict |-> "accept", scores |-> sc]))
                = should_regenerate(CheckUpdate(state,
                    [kind |-> "obj", verdict |-> "reject", scores |-> sc])))

C20_Witness ==
    /\ pc = "end"
    /\ state.attempts = 1
    /\ state.check_result.kind = "obj"
    /\ state.check_result.verdict = "reject"
    /\ \A k \in Dims : state.check_result.scores[k] = QUALITY_THRESHOLD[k]

\* --------------------------------------------------------------------- C12

\* C12: with sequential calls for one caller identity, a call is allowed if
\* and only if fewer than max_requests allowed calls of that identity lie
\* inside the window that ends at the call: the call after max_requests
\* allowed ones inside the window returns False, and an identity whose
\* allowed calls are all window_seconds old or older is allowed again.
C12_SlidingWindowLimit ==
    rl.last.ip # None =>
        /\ rl.last.allowed <=> rl.last.inWindowBefore < MaxRequests
        /\ InWindow(rl.granted[rl.last.ip], rl.last.time) <= MaxRequests

C12_Witness ==
    /\ rl.last.ip = "unknown"
    /\ rl.last.allowed
    /\ rl.last.inWindowBefore = 0
    /\ Len(rl.granted["unknown"]) = MaxRequests + 1
    /\ rl.last.time = WindowSeconds

\* --------------------------------------------------------------------- C13

\* The timestamps of list, as a bag, that lie inside the window ending at now.
Recent(list, now) ==
    {i \in 1..Len(list) : list[i] > now - WindowSeconds}

\* C13: with several threads inside is_allowed for one caller identity, no
\* window of window_seconds contains more than max_requests allowed calls,
\* and the timestamp of every allowed call that is still inside the window
\* is in that identity's list.
C13_PurgeAndAppendAtomic ==
    \A ip \in Ips :
        /\ \A w \in 0..MaxTime : InWindow(rl.granted[ip], w) <= MaxRequests
        /\ ip \in DOMAIN rl.requests =>
             Cardinality(Recent(rl.granted[ip], rl.now))
                 <= Cardinality(Recent(rl.requests[ip], rl.now))

\* --------------------------------------------------------------------- C14

C15_MetricsNeverDecide ==
    /\ execs[1].pc = execs[2].pc
    /\ frames[Frame(1)].attempts = frames[Frame(2)].attempts
    /\ frames[Frame(1)].validation_result = frames[Frame(2)].validation_result
    /\ frames[Frame(1)].generated_review = frames[Frame(2)].generated_review
    /\ frames[Frame(1)].check_result = frames[Frame(2)].check_result
    /\ execs[1].result = execs[2].result
    /\ \A p \in Execs :
         execs[p].metrics.computed =>
            /\ execs[p].pc = "shown"
            /\ execs[p].result # NoResult

C15_Witness ==
    /\ execs[1].pc = "shown"
    /\ execs[1].reviews = <<"Slow service.">>
    /\ execs[2].reviews = <<"Great coffee.", "Slow service.">>
    /\ execs[1].metrics.values = <<"low">>
    /\ execs[2].metrics.values = <<"high", "high">>
    /\ frames[Frame(1)].attempts = 2
    /\ frames[Frame(1)].real_reviews # frames[Frame(2)].real_reviews
    /\ execs[1].result.review # None

\* --------------------------------------------------------------------- C18

\* The elements of a sequence.
Range(q) == { q[i] : i \in 1..Len(q) }

\* What C18 requires of the pair r returned for (rubric, rating, limit) on
\* the database rows.
RetrievalContract(rows, rubric, rating, limit, r) ==
    LET exact == { x \in rows : x.rubric = rubric /\ x.rating = rating }
        same  == { x \in rows : x.rubric = rubric }
    IN  /\ exact # {} =>
              /\ r.exact_match
              /\ r.reviews # <<>>
              /\ \A t \in Range(r.reviews) : \E x \in exact : x.text = t
        /\ exact = {} /\ same # {} =>
              /\ ~r.exact_match
              /\ r.reviews # <<>>
              /\ \A t \in Range(r.reviews) : \E x \in same : x.text = t
        /\ same = {} => r.reviews = <<>> /\ ~r.exact_match
        /\ Len(r.reviews) <= limit

\* C18: every call of get_relevant_reviews returns exact matches flagged
\* true when the category has a review of the requested rating, a non-empty
\* same-category sequence flagged false when it has reviews of other ratings
\* only, the empty sequence flagged false when it has none, and never more
\* than limit elements.
C18_ExactThenFallback ==
    [][db'.last # db.last =>
         RetrievalContract(db.rows, db'.last.rubric, db'.last.rating,
                           db'.last.limit, db'.last)]_vars

C18_Witness ==
    /\ db.last.rubric = "cafe"
    /\ db.last.rating = 5
    /\ ~db.last.exact_match
    /\ Len(db.last.reviews) = db.last.limit
    /\ Cardinality(RubricTexts(db.rows, "cafe")) > db.last.limit
    /\ ExactTexts(db.rows, "cafe", 5) = {}
    /\ \E x \in db.rows : x.rubric = "bar" /\ x.rating = 5

\* --------------------------------------------------------------------- C19

\* C19: when the fields are filled and the retrieval returns no example,
\* the script shows the no-data error and nothing else and stops: it makes
\* no call of is_allowed, starts no execution of generate_review and runs no
\* Validate, Generate or Check step.
C19_NoDataStopsBeforeGeneration ==
    /\ [](fe.pc # "form" /\ fe.theme # "" /\ fe.category # None
            /\ fe.reviews = <<>> =>
              /\ fe.pc = "done"
              /\ fe.shown = <<NO_DATA(fe.category)>>
              /\ fe.limiterCalls = 0
              /\ fe.steps = 0
              /\ execs[1].pc = "idle")
    /\ [][fe.pc = "form" /\ fe'.pc = "done" /\ fe'.shown # <<FILL_FIELDS>> =>
            /\ rl' = rl
            /\ RubricTexts(db.rows, fe'.category) = {}]_vars

C19_Witness ==
    /\ fe.pc = "done"
    /\ fe.theme = "coffee"
    /\ fe.category = "bar"
    /\ fe.shown = <<NO_DATA("bar")>>
    /\ Len(rl.granted[client_ip]) = 1
    /\ RubricTexts(db.rows, "cafe") # {}
    /\ execs[1].pc = "idle"

\* --------------------------------------------------------------------- C16

\* C16: when the text the comma repair is given (the reply without fences
\* and surrounding white space) is valid JSON, the repair returns it
\* unchanged, character for character, and the parser's result is what
\* decoding that text gives.
C16_RepairLeavesValidJsonAlone ==
    pj.pc = "parsed" /\ json_loads(pj.stripped).ok =>
        /\ pj.cleaned = pj.stripped
        /\ pj.result = json_loads(pj.stripped)

C16_Witness ==
    /\ pj.pc = "parsed"
    /\ pj.reply.missing = 0
    /\ pj.result.ok
    /\ Len(pj.result.val.items) = MaxMembers
    /\ \E i \in 1..(Len(pj.reply.content) - 1) :
         /\ pj.reply.content[i] = NL
         /\ pj.reply.content[i + 1] = Q
    /\ \E i \in 1..Len(pj.reply.content) : pj.reply.content[i] = BS

\* --------------------------------------------------------------------- C17

\* C17: a reply that is an object in which commas are missing, each after a
\* scalar value that is followed by a newline and the next quoted key, is
\* decoded, and to the value the same text with its commas decodes to; the
\* validation example with the comma after true missing decodes to
\* is_valid true, error_type null.
C17_RepairInsertsMissingComma ==
    /\ pj.pc = "parsed" /\ pj.reply.missing > 0 /\ pj.reply.afterScalar =>
          /\ pj.result.ok
          /\ pj.result = json_loads(pj.reply.intended)
          /\ ~json_loads(pj.reply.content).ok
    /\ pj.pc = "parsed" /\ pj.reply.content = VALIDATION_EXAMPLE_TEXT =>
          pj.result = [ok |-> TRUE, val |-> VALIDATION_EXAMPLE_VALUE]

C17_Witness ==
    /\ pj.pc = "parsed"
    /\ pj.reply.content = VALIDATION_EXAMPLE_TEXT
    /\ pj.result.ok
    /\ pj.cleaned # pj.stripped

\* --------------------------------------------------------------------- C21

\* C21: attempts is 0 when the execution starts; a Check that completes
\* (its reply was decoded and stored) raises it by exactly 1; every other
\* step, and a Check that raises before its result is stored, leaves it
\* unchanged; it never decreases and always lies in 0..3.
C21_AttemptsCountCompletedChecks ==
    /\ state.attempts = 0
    /\ [][ /\ pc' = "validate" => state'.attempts = 0
           /\ state'.attempts \in 0..AttemptCap
           /\ state'.attempts >= state.attempts
           /\ IF pc = "check" /\ ~(pc' = "except" /\ failedStep' = "check")
              THEN state'.attempts = state.attempts + 1
              ELSE state'.attempts = state.attempts ]_vars

C21_Witness ==
    /\ pc = "returned"
    /\ state.attempts = AttemptCap
    /\ nCheck = AttemptCap
    /\ nGenerate = AttemptCap

\* --------------------------------------------------------------------- C22

\* C22: when Validate has stored a validation result carrying is_valid, the
\* next node is generate if and only if is_valid is true and end otherwise;
\* Validate is entered only when the execution starts, never from another
\* step, and an execution that has returned has run it exactly once.
C22_ValidateRoutesOnce ==
    [][ /\ (pc = "validate" /\ state'.validation_result.kind = "obj") =>
              /\ pc' = "generate" <=> state'.validation_result.is_valid
              /\ pc' = "end" <=> ~state'.validation_result.is_valid
        /\ pc' = "validate" => pc = "idle"
        /\ nValidate' # nValidate => (pc = "validate" /\ nValidate = 0)
        /\ pc' = "returned" => nValidate' = 1 ]_vars

C22_Witness ==
    /\ pc = "end"
    /\ nValidate = 1
    /\ ValidationRejected
    /\ nGenerate = 0

\* --------------------------------------------------------------------- C23

\* C23: the calls of one caller identity are counted against one window
\* whichever session made them: in any window, the calls allowed to the
\* identity over all sessions number at most max_requests.
C23_OneWindowAcrossSessions ==
    InWindow(ss.granted, ss.now) <= MaxRequests

\* --------------------------------------------------------------------- C24

\* C24: right after a call of is_allowed for ip, run on its own, the list
\* of ip holds only timestamps newer than now - window_seconds and at most
\* max_requests of them, and the lists of the other identities are what
\* they were before the call.
C24_CallPurgesOwnListOnly ==
    [][ (rl'.requests # rl.requests \/ rl'.last # rl.last) =>
          LET ip == rl'.last.ip
              list == rl'.requests[ip]
          IN  /\ ip \in DOMAIN rl'.requests
              /\ \A i \in 1..Len(list) : list[i] > rl'.now - WindowSeconds
              /\ Len(list) <= MaxRequests
              /\ DOMAIN rl'.requests = DOMAIN rl.requests \cup {ip}
              /\ \A other \in DOMAIN rl.requests \ {ip} :
                    rl'.requests[other] = rl.requests[other] ]_vars

C24_Witness ==
    /\ rl.last.ip = "unknown"
    /\ rl.last.time = rl.now
    /\ DOMAIN rl.requests = Ips
    /\ Len(rl.requests["unknown"]) < Len(rl.granted["unknown"])
    /\ Len(rl.requests["10.0.0.7"]) = MaxRequests
    /\ \E i \in 1..MaxRequests : rl.requests["10.0.0.7"][i] <= rl.now - WindowSeconds

\* --------------------------------------------------------------------- C27

\* C27: every visit to Validate, Generate or Check sends exactly one
\* completion request and no other step sends any; an execution that has
\* reached End has sent 1 + (Generate steps) + (Check steps) requests, at
\* most 7.
C27_OneRequestPerVisit ==
    /\ [][ IF pc \in {"validate", "generate", "check"}
           THEN Len(sent') = Len(sent) + 1 /\ calls' = calls + 1
           ELSE sent' = sent /\ calls' = calls ]_vars
    /\ [](endReached =>
            /\ Len(sent) = 1 + nGenerate + nCheck
            /\ calls = Len(sent)
            /\ Len(sent) <= 1 + 2 * AttemptCap)

C27_Witness ==
    /\ endReached
    /\ nGenerate = AttemptCap
    /\ nCheck = AttemptCap
    /\ Len(sent) = 1 + 2 * AttemptCap

\* --------------------------------------------------------------------- C28

\* C28: from the call of generate_review on, theme, rating and category of
\* the state are the values passed and the examples block is the one built
\* at the call (the text passed, or the placeholder when none was passed);
\* no step changes them, and every Generate and Check of the execution
\* renders its prompt from these same values.
C28_RequestFieldsFrozen ==
    pc # "idle" =>
        /\ state.theme = request.theme
        /\ state.rating = request.rating
        /\ state.category = request.category
        /\ state.real_reviews = InitialState(request).real_reviews
        /\ \A i \in 1..Len(sent) :
              /\ sent[i].step \in {"generate", "check"} =>
                    /\ sent[i].theme = request.theme
                    /\ sent[i].rating = request.rating
                    /\ sent[i].category = request.category
              /\ sent[i].step = "generate" =>
                    sent[i].real_reviews = InitialState(request).real_reviews

C28_Witness ==
    /\ pc = "policy"
    /\ endReached
    /\ nGenerate = AttemptCap
    /\ nCheck = AttemptCap
    /\ state.real_reviews = request.real_reviews
    /\ genLog[1] # genLog[2]

\* --------------------------------------------------------------------- C29

\* C29: when generate_review is called without examples (None or the empty
\* text), every Generate step renders the placeholder sentence as the
\* examples block; when examples are passed, every Generate step renders
\* them and never the placeholder.
C29_PlaceholderIffNoExamples ==
    \A i \in 1..Len(sent) :
        sent[i].step = "generate" =>
            IF request.real_reviews \in {None, ""}
            THEN sent[i].real_reviews = NO_EXAMPLES
            ELSE /\ sent[i].real_reviews = request.real_reviews
                 /\ sent[i].real_reviews # NO_EXAMPLES

C29_Witness ==
    /\ pc = "check"
    /\ nGenerate = 2
    /\ request.real_reviews = ""
    /\ sent[Len(sent)].step = "generate"
    /\ sent[Len(sent)].real_reviews = NO_EXAMPLES

\* --------------------------------------------------------------------- C30

\* C30: whatever the two handlers emit into the buffer, it never holds
\* more than 50 entries, and the entries it holds are the most recent ones
\* in the order of their emission.
C30_LogKeepsLastFifty ==
    /\ Len(lg.app_logs) <= APP_LOG_CAP
    /\ \A i \in 1..Len(lg.app_logs) :
          lg.app_logs[i] = lg.emitted - Len(lg.app_logs) + i

\* --------------------------------------------------------------------- C25

\* C25: when a reply still does not decode after the repair, the error the
\* parser raises carries the name of the step, the raw reply text and the
\* text as it was after the repair.
C25_ErrorCarriesRawAndRepairedText ==
    (pj.pc = "parsed" /\ ~pj.result.ok) =>
        /\ pj.error.type = "ValueError"
        /\ Contains(pj.error.message, <<pj.step>>)
        /\ Contains(pj.error.message, pj.reply.content)
        /\ Contains(pj.error.message, pj.cleaned)

\* --------------------------------------------------------------------- C26

\* C26: a valid JSON text written inside a markdown code block, with or
\* without the json tag and with white space around the block, is parsed
\* to the record the JSON text itself decodes to, also when one of its
\* string values holds a run of three backticks.
C26_FenceStrippingPreservesContent ==
    (pj.pc = "parsed" /\ pj.reply.fenced) =>
        /\ json_loads(pj.reply.intended).ok
        /\ pj.result = json_loads(pj.reply.intended)

\* --------------------------------------------------------------------- C31

\* C31: in the front-end helper a denied is_allowed call ends the request
\* with the rate-limit error: no execution is started, no step runs and no
\* completion is requested; an execution is started, and a step runs, only
\* after the helper's one is_allowed call returned True and recorded its
\* timestamp, and that timestamp stays recorded whatever the execution
\* then returns.
C31_LimiterGuardsEveryExecution ==
    /\ [][ /\ (fe.pc = "helper" /\ ~rl'.last.allowed) =>
                /\ fe'.pc = "done"
                /\ fe'.shown[Len(fe'.shown)] = RATE_LIMITED
                /\ fe'.steps = 0
                /\ execs' = execs
                /\ frames' = frames
                /\ rl'.granted = rl.granted
           /\ (execs[1].pc = "idle" /\ execs'[1].pc # "idle") =>
                /\ fe.pc = "call"
                /\ fe.limiterCalls = 1
                /\ rl.last = [ip |-> client_ip, time |-> rl.now, allowed |-> TRUE,
                              inWindowBefore |-> rl.last.inWindowBefore]
           /\ \A i \in 1..Len(rl.granted[client_ip]) :
                /\ Len(rl'.granted[client_ip]) >= i
                /\ rl'.granted[client_ip][i] = rl.granted[client_ip][i] ]_vars
    /\ [](execs[1].pc # "idle" =>
            /\ rl.last.allowed
            /\ rl.last.ip = client_ip
            /\ client_ip \in DOMAIN rl.requests
            /\ rl.requests[client_ip] # <<>>
            /\ rl.requests[client_ip][Len(rl.requests[client_ip])] = rl.last.time
            /\ rl.granted[client_ip][Len(rl.granted[client_ip])] = rl.last.time)

C31_Witness ==
    /\ fe.pc = "done"
    /\ fe.shown[Len(fe.shown)] = RATE_LIMITED
    /\ ~rl.last.allowed
    /\ fe.limiterCalls = 1
    /\ fe.steps = 0
    /\ execs[1].pc = "idle"
    /\ Len(rl.granted[client_ip]) = MaxRequests

\* --------------------------------------------------------------------- C33

\* C33: when generate_review has returned, the helper shows the review and
\* computes the metrics if and only if the message is None; with any
\* message, the degraded-quality warning that comes with a review text
\* included, it shows the message as the error, does not show the review
\* and computes no metrics.
C33_ReviewShownIffNoMessage ==
    [][ (fe.pc = "waiting" /\ fe'.pc = "done") =>
          LET res == execs[1].result
          IN  /\ Len(fe'.shown) = Len(fe.shown) + 1
              /\ IF res.message = None
                 THEN /\ fe'.shown[Len(fe'.shown)] = res.review
                      /\ execs'[1].metrics.computed
                 ELSE /\ fe'.shown[Len(fe'.shown)] = res.message
                      /\ res.review \notin Range(fe'.shown)
                      /\ ~execs'[1].metrics.computed ]_vars

C33_Witness ==
    /\ fe.pc = "done"
    /\ execs[1].pc = "shown"
    /\ execs[1].result.message = DEGRADED_MSG
    /\ execs[1].result.review \in Texts
    /\ fe.shown[Len(fe.shown)] = DEGRADED_MSG
    /\ ~execs[1].metrics.computed

\* --------------------------------------------------------------------- C32

\* C32: a denied call of is_allowed records nothing: it leaves the list of
\* the caller equal to the purged list, which is full, and every list holds
\* timestamps of allowed calls only; so a call made once the oldest
\* timestamp of the list is window_seconds old is allowed, however many
\* denied calls came before it.
C32_DeniedCallRecordsNothing ==
    /\ [][ rl'.last # rl.last =>
             LET ip == rl'.last.ip
                 before == EnsureKey(rl.requests, ip)[ip]
             IN  /\ ~rl'.last.allowed =>
                       /\ rl'.requests[ip] = Purge(before, rl.now)
                       /\ Len(rl'.requests[ip]) = MaxRequests
                       /\ rl'.granted = rl.granted
                 /\ (before # <<>> /\ before[1] <= rl.now - WindowSeconds) =>
                       rl'.last.allowed ]_vars
    /\ [](\A ip \in DOMAIN rl.requests :
            \A i \in 1..Len(rl.requests[ip]) :
                rl.requests[ip][i] \in Range(rl.granted[ip]))

C32_Witness ==
    /\ rl.last.ip = "unknown"
    /\ ~rl.last.allowed
    /\ rl.last.time = rl.now
    /\ Len(rl.requests["unknown"]) = MaxRequests
    /\ rl.requests["unknown"][1] = rl.now - WindowSeconds + 1
    /\ rl.requests["unknown"] = rl.granted["unknown"]

\* --------------------------------------------------------------------- C34

CompletedChecks == nCheck - (IF failedStep = "check" THEN 1 ELSE 0)

\* C35: at every point of an execution attempts equals the number of
\* completed Check steps and the number of completed Generate steps is
\* attempts or attempts + 1; once the end node has run after a passed
\* validation the two numbers are equal and at least 1.
C35_AttemptsMatchCompletedSteps ==
    /\ state.attempts = CompletedChecks
    /\ Len(genLog) \in {state.attempts, state.attempts + 1}
    /\ (endReached /\ ValidationPassed) =>
          /\ Len(genLog) = state.attempts
          /\ state.attempts >= 1

C35_Witness ==
    /\ endReached
    /\ ValidationPassed
    /\ state.attempts = 2
    /\ Len(genLog) = 2
    /\ nCheck = 2

\* --------------------------------------------------------------------- C36

\* C36: wait_for_db, called with max_attempts of 1 or more, passes through
\* the try block at most max_attempts times; it returns only an engine, and
\* does so straight after the first pass that connected; it has slept delay
\* seconds once after every failed pass except the max_attempts-th; and it
\* raises exactly when the max_attempts-th pass has failed.
C36_BoundedAttempts ==
    wd.pc # "idle" =>
      /\ wd.tries <= wd.max_attempts
      /\ wd.slept = wd.sleeps * wd.delay
      /\ wd.pc = "try" =>
            /\ wd.tries = wd.attempt
            /\ wd.tries < wd.max_attempts
            /\ wd.sleeps = wd.tries
            /\ wd.last # "connected"
      /\ wd.pc = "sleep" =>
            /\ wd.tries < wd.max_attempts
            /\ wd.sleeps = wd.tries - 1
            /\ wd.last # "connected"
      /\ wd.pc = "returned" =>
            /\ wd.returned = Engine
            /\ wd.last = "connected"
            /\ wd.sleeps = wd.tries - 1
      /\ wd.pc = "raised" =>
            /\ wd.tries = wd.max_attempts
            /\ wd.sleeps = wd.max_attempts - 1
            /\ wd.last # "connected"
            /\ wd.raised = WDFailed(wd.max_attempts, wd.last)
      /\ wd.pc # "returned" => wd.returned = None
      /\ wd.pc # "raised" => wd.raised = NotRaised

C36_Witness ==
    /\ wd.pc = "raised"
    /\ wd.max_attempts = 3
    /\ wd.tries = 3
    /\ wd.sleeps = 2
    /\ wd.slept = 2 * DefaultDelay
    /\ wd.last = "port closed"

\* --------------------------------------------------------------------- C37

\* C37: once check_and_truncate_tokens has made its final check, no review
\* is reported as still exceeding the token limit.
C37_NoneStillExceeds ==
    tk.pc = "checked" => tk.still_exceeds = <<>>

=============================================================================
